---- MODULE Spec2Model ----
(***************************************************************************)
(* Record merger of the GitHub notification index engine.                  *)
(*                                                                         *)
(* The module models EmailMessage (src/_internal/email_models.py): the     *)
(* construction of a record with its validators and append_by_pr, the fold *)
(* step that merges a record into the list of canonical records.  Python   *)
(* objects live on a heap (emails, dicts, lists) because append_by_pr      *)
(* stores references and mutates dicts and lists in place.                 *)
(*                                                                         *)
(* Text that the code inspects (body, section keys, section items) is a    *)
(* sequence of one-character strings; text it only carries (subject,       *)
(* sender, ...) is an opaque string.  A list-valued field is kept as the   *)
(* set of its elements: the code rebuilds it with list(set | set), whose   *)
(* order is unspecified, and only ever tests it for emptiness.             *)
(***************************************************************************)
EXTENDS Integers, Sequences, FiniteSets, TLC

\* ------------------------------------------------------------------ bounds
\* Number of append_by_pr calls of one run.
MaxCalls == 3
\* PR numbers range over 1..MaxPR.
MaxPR == 2

\* ---------------------------------------------------------------- optional
\* Optional[T]: None is the empty sequence, a present value v is <<v>>.
None == << >>
Some(v) == << v >>
IsNone(o) == Len(o) = 0
IsSome(o) == Len(o) = 1
Get(o) == o[1]

\* -------------------------------------------------------------------- text
UpperChars == << "A", "B", "C", "D", "E", "F", "G", "H", "I", "J", "K", "L", "M",
                 "N", "O", "P", "Q", "R", "S", "T", "U", "V", "W", "X", "Y", "Z" >>
LowerChars == << "a", "b", "c", "d", "e", "f", "g", "h", "i", "j", "k", "l", "m",
                 "n", "o", "p", "q", "r", "s", "t", "u", "v", "w", "x", "y", "z" >>

\* str.lower() of one character.
LowerChar(c) ==
    IF \E i \in DOMAIN UpperChars : UpperChars[i] = c
    THEN LowerChars[CHOOSE i \in DOMAIN UpperChars : UpperChars[i] = c]
    ELSE c

\* str.lower().
Lower(s) == [i \in DOMAIN s |-> LowerChar(s[i])]

\* sub in s (substring test).
Contains(s, sub) ==
    \E i \in 0..(Len(s) - Len(sub)) : SubSeq(s, i + 1, i + Len(sub)) = sub

\* sep.join(items).
RECURSIVE Join(_, _)
Join(items, sep) ==
    IF Len(items) = 0 THEN << >>
    ELSE IF Len(items) = 1 THEN items[1]
    ELSE items[1] \o sep \o Join(Tail(items), sep)

SONAR == << "s", "o", "n", "a", "r" >>
COMMA == << "," >>
BLANK_LINE == << "\n", "\n" >>

\* ------------------------------------------------------------------ fields
\* The optional list fields of EmailMessage other than pr_numbers.
ListFields == { "repos", "tickets", "commits", "files_modified", "tags",
                "contributors", "linked_prs", "linked_tickets" }

\* The fields empty_list_to_none is registered for.
NormalizedFields == { "repos", "tickets", "markdown", "commits",
                      "files_modified", "tags", "contributors" }

\* The optional text fields.
ScalarFields == { "sender", "date", "message_id", "pr_title" }

\* A merge that leaves out only the fields that are never None.
ExcludedFieldsShort == { "subject", "pr_numbers" }

\* The fields append_by_pr leaves out of a merge.
ExcludedFields == { "sender", "date", "subject", "message_id", "pr_title",
                    "pr_numbers" }

\* The order in which the model walks the fields of a merge and the keys of a
\* section map.  Python walks a set, and a dict, in an order of its own; each
\* field and each key is merged independently of the others.
FieldOrder == << "sender", "date", "subject", "message_id", "pr_title",
                 "pr_numbers", "repos", "tickets", "commits", "files_modified",
                 "tags", "contributors", "linked_prs", "linked_tickets",
                 "markdown", "body" >>

\* Section keys of the model: one that lower-cases to a text holding "sonar"
\* and one that does not.
KEY_SONAR == << "S", "o", "n", "a", "r" >>
KEY_NOTES == << "l", "o", "g" >>
Keys == { KEY_SONAR, KEY_NOTES }
KeyOrder == << KEY_SONAR, KEY_NOTES >>

\* ------------------------------------------------------------------- state
VARIABLES
    emails,   \* heap of EmailMessage objects, indexed by object id
    dicts,    \* heap of dict objects (the values of markdown fields)
    lists,    \* heap of list objects (the item lists of section maps)
    result,   \* the accumulator: the list of canonical records (object ids)
    last,     \* history of the last append_by_pr call (not program state)
    call      \* one call of a helper function: its name, argument and result

vars == << emails, dicts, lists, result, last, call >>

\* The heap as one value.
Heap == [emails |-> emails, dicts |-> dicts, lists |-> lists]

\* ------------------------------------------------------------ construction
\* convert_pr_numbers: a falsy value (None, []) becomes None, a list is kept.
convert_pr_numbers(value) ==
    IF IsNone(value) \/ Get(value) = << >> THEN None ELSE value

\* empty_list_to_none on a list field: None and [] become None.
empty_list_to_none(value) ==
    IF IsNone(value) \/ Get(value) = {} THEN None ELSE value

\* The titles whose strip() is the empty string.
BlankTitles == { "", " " }

\* clean_empty_fields: a blank pr_title becomes None.
clean_empty_fields(pr_title) ==
    IF IsSome(pr_title) /\ Get(pr_title) \in BlankTitles THEN None ELSE pr_title

\* The list fields of a new record: the validator runs on the fields passed,
\* a field not passed keeps its default None.
ValidatedLists(kw) ==
    [f \in ListFields |->
        IF f \notin kw.fields_set THEN None
        ELSE IF f \in NormalizedFields THEN empty_list_to_none(kw.lf[f])
        ELSE kw.lf[f]]

\* The list objects a new section map needs: one per key that holds a list.
RECURSIVE NewLists(_, _, _)
NewLists(md, keys, ls) ==
    IF Len(keys) = 0 THEN ls
    ELSE LET k == Head(keys) IN
         IF k \in md.keys /\ IsSome(md.val[k])
         THEN NewLists(md, Tail(keys), Append(ls, Get(md.val[k])))
         ELSE NewLists(md, Tail(keys), ls)

\* The id of the list object NewLists allocates for key k (ls: the heap before).
RECURSIVE NewListId(_, _, _, _)
NewListId(md, keys, k, n) ==
    LET h == Head(keys)
        m == IF h \in md.keys /\ IsSome(md.val[h]) THEN n + 1 ELSE n
    IN IF h = k THEN m ELSE NewListId(md, Tail(keys), k, m)

\* EmailMessage(**kw): the heap after the construction; the new record is the
\* last object of emails.  The record gets a dict of its own, whose values are
\* the item lists passed in.
EmailMessage(h, kw) ==
    LET hasMd == "markdown" \in kw.fields_set /\ IsSome(kw.markdown)
        md    == Get(kw.markdown)
        newDict ==
            [keys |-> md.keys,
             val  |-> [k \in Keys |->
                        IF k \in md.keys /\ IsSome(md.val[k])
                        THEN Some(NewListId(md, KeyOrder, k, Len(h.lists)))
                        ELSE None]]
        opt(f, v) == IF f \in kw.fields_set THEN v ELSE None
        rec ==
            [subject    |-> kw.subject,
             sender     |-> opt("sender", kw.sender),
             date       |-> opt("date", kw.date),
             message_id |-> opt("message_id", kw.message_id),
             pr_numbers |-> opt("pr_numbers", convert_pr_numbers(kw.pr_numbers)),
             pr_title   |-> clean_empty_fields(opt("pr_title", kw.pr_title)),
             body       |-> kw.body,
             markdown   |-> IF hasMd THEN Some(Len(h.dicts) + 1) ELSE None,
             lf         |-> ValidatedLists(kw),
             fields_set |-> kw.fields_set]
    IN [emails |-> Append(h.emails, rec),
        dicts  |-> IF hasMd THEN Append(h.dicts, newDict) ELSE h.dicts,
        lists  |-> IF hasMd THEN NewLists(md, KeyOrder, h.lists) ELSE h.lists]

\* A record with its section map read off the heap: what an observer of the
\* object sees.
View(h, id) ==
    LET e == h.emails[id] IN
    [subject    |-> e.subject,
     sender     |-> e.sender,
     date       |-> e.date,
     message_id |-> e.message_id,
     pr_numbers |-> e.pr_numbers,
     pr_title   |-> e.pr_title,
     body       |-> e.body,
     lf         |-> e.lf,
     fields_set |-> e.fields_set,
     markdown   |->
        IF IsNone(e.markdown) THEN None
        ELSE LET d == h.dicts[Get(e.markdown)] IN
             Some([keys |-> d.keys,
                   val  |-> [k \in Keys |->
                              IF k \in d.keys /\ IsSome(d.val[k])
                              THEN Some(h.lists[Get(d.val[k])])
                              ELSE None]])]

\* ------------------------------------------------------------------- merge
\* Python truth of an optional list field: neither None nor empty.
ListTruthy(v) == IsSome(v) /\ Get(v) # {}

\* Python truth of an optional dict reference: neither None nor {}.
DictTruthy(h, d) == IsSome(d) /\ h.dicts[Get(d)].keys # {}

\* Python truth of a dict value (None or a list object): a non-empty list.
ItemsTruthy(h, ref) == IsSome(ref) /\ Len(h.lists[Get(ref)]) > 0

\* Line 133: the new items are appended unless this is FALSE.
SonarAllowsAppend(key, items) ==
    ~Contains(Lower(key), SONAR) \/ ~Contains(Lower(Join(items, COMMA)), SONAR)

\* Lines 131-136, one key of the new section map: de and dn are the dict
\* objects of the existing and of the new record.
MergeKey(h, de, dn, key) ==
    LET items == h.dicts[dn].val[key]
        old   == h.dicts[de].val[key]
    IN IF key \in h.dicts[de].keys /\ ItemsTruthy(h, items)
       THEN IF ItemsTruthy(h, old)
            THEN IF SonarAllowsAppend(key, h.lists[Get(items)])
                 THEN [h EXCEPT !.lists[Get(old)] = @ \o h.lists[Get(items)]]
                 ELSE h
            ELSE h
       ELSE [h EXCEPT !.dicts[de].keys = @ \cup {key},
                      !.dicts[de].val[key] = items]

\* Lines 130-136: every key of the new section map, in turn.
RECURSIVE MergeKeys(_, _, _, _)
MergeKeys(h, de, dn, keys) ==
    IF Len(keys) = 0 THEN h
    ELSE IF Head(keys) \in h.dicts[dn].keys
         THEN MergeKeys(MergeKey(h, de, dn, Head(keys)), de, dn, Tail(keys))
         ELSE MergeKeys(h, de, dn, Tail(keys))

\* A merge of a list field that keeps only the new values (a bug).
MergeListFieldReplacing(h, e, s, f) ==
    IF IsSome(h.emails[s].lf[f])
    THEN [h EXCEPT !.emails[e].lf[f] = h.emails[s].lf[f]]
    ELSE h

\* A merge of a list field with ^ in the place of | (a bug).
MergeListFieldXor(h, e, s, f) ==
    LET existing_value == h.emails[e].lf[f]
        new_value      == h.emails[s].lf[f]
    IN IF IsSome(existing_value)
       THEN IF ListTruthy(new_value)
            THEN [h EXCEPT !.emails[e].lf[f] =
                    Some((Get(existing_value) \ Get(new_value))
                         \cup (Get(new_value) \ Get(existing_value)))]
            ELSE h
       ELSE IF IsSome(new_value)
            THEN [h EXCEPT !.emails[e].lf[f] = new_value]
            ELSE h

\* Lines 121-124 and 126-127 for a list field.
MergeListField(h, e, s, f) ==
    LET existing_value == h.emails[e].lf[f]
        new_value      == h.emails[s].lf[f]
    IN IF IsSome(existing_value)
       THEN IF ListTruthy(new_value)
            THEN [h EXCEPT !.emails[e].lf[f] =
                               Some(Get(existing_value) \cup Get(new_value))]
            ELSE h
       ELSE IF IsSome(new_value)
            THEN [h EXCEPT !.emails[e].lf[f] = new_value]
            ELSE h

\* Lines 126-137 for the markdown field.
MergeMarkdown(h, e, s) ==
    LET existing_value == h.emails[e].markdown
        new_value      == h.emails[s].markdown
    IN IF IsNone(existing_value) /\ IsSome(new_value)
       THEN [h EXCEPT !.emails[e].markdown = new_value]
       ELSE IF DictTruthy(h, existing_value) /\ DictTruthy(h, new_value)
            THEN MergeKeys(h, Get(existing_value), Get(new_value), KeyOrder)
            ELSE h

\* A merge of the bodies that puts the new body first (a bug).
MergeBodyPrepending(h, e, s) ==
    IF Len(h.emails[s].body) > 0
    THEN [h EXCEPT !.emails[e].body =
                       h.emails[s].body \o BLANK_LINE \o h.emails[e].body]
    ELSE h

\* Lines 138-142 for the body field.
MergeBody(h, e, s) ==
    LET existing_value == h.emails[e].body
        new_value      == h.emails[s].body
    IN IF Len(new_value) > 0
       THEN [h EXCEPT !.emails[e].body = existing_value \o BLANK_LINE \o new_value]
       ELSE h

\* Lines 126-127 for an optional scalar field: None adopts the new value.
MergeScalarField(h, e, s, f) ==
    IF IsNone(h.emails[e][f]) /\ IsSome(h.emails[s][f])
    THEN [h EXCEPT !.emails[e][f] = h.emails[s][f]]
    ELSE h

\* Lines 118-142 for one field of the loop.
MergeField(h, e, s, f) ==
    IF f \in ListFields THEN MergeListField(h, e, s, f)
    ELSE IF f = "markdown" THEN MergeMarkdown(h, e, s)
    ELSE IF f = "body" THEN MergeBody(h, e, s)
    ELSE IF f \in ScalarFields THEN MergeScalarField(h, e, s, f)
    ELSE h

\* Lines 117-142: the fields set on the new record s, but for the excluded
\* ones, merged into the existing record e.
RECURSIVE MergeFields(_, _, _, _)
MergeFields(h, e, s, fs) ==
    IF Len(fs) = 0 THEN h
    ELSE IF Head(fs) \in h.emails[s].fields_set \ ExcludedFields
         THEN MergeFields(MergeField(h, e, s, Head(fs)), e, s, Tail(fs))
         ELSE MergeFields(h, e, s, Tail(fs))

Merge(h, e, s) == MergeFields(h, e, s, FieldOrder)

\* ------------------------------------------------------------ append_by_pr
\* Line 115: the existing record holds pr among its PR numbers.
HoldsPr(h, id, pr) ==
    LET ns == h.emails[id].pr_numbers IN
    IsSome(ns) /\ \E i \in DOMAIN Get(ns) : Get(ns)[i] = pr

\* Lines 114-115: the position in res of the first record that holds pr, or 0.
FirstHolder(h, res, pr) ==
    IF \E i \in DOMAIN res : HoldsPr(h, res[i], pr)
    THEN CHOOSE i \in DOMAIN res :
            /\ HoldsPr(h, res[i], pr)
            /\ \A j \in 1..(i - 1) : ~HoldsPr(h, res[j], pr)
    ELSE 0

\* What one round of the loop over pr_numbers did (history).
MergeEvent(h, hAfter, e, s, pr) ==
    [kind |-> "merge", pr |-> pr, target |-> e,
     pre |-> View(h, e), new |-> View(h, s), post |-> View(hAfter, e)]

AppendEvent(h, s, pr) ==
    [kind |-> "append", pr |-> pr, target |-> s,
     pre |-> View(h, s), new |-> View(h, s), post |-> View(h, s)]

\* Lines 112-146: the loop over the PR numbers of record s.  st holds the heap,
\* the result list and the events so far.
RECURSIVE PrLoop(_, _, _)
PrLoop(st, s, prs) ==
    IF Len(prs) = 0 THEN st
    ELSE LET pr == Head(prs)
             i  == FirstHolder(st.h, st.res, pr)
         IN IF i # 0
            THEN LET hAfter == Merge(st.h, st.res[i], s) IN
                 PrLoop([h |-> hAfter, res |-> st.res,
                         events |-> Append(st.events,
                                      MergeEvent(st.h, hAfter, st.res[i], s, pr))],
                        s, Tail(prs))
            ELSE PrLoop([h |-> st.h, res |-> Append(st.res, s),
                         events |-> Append(st.events, AppendEvent(st.h, s, pr))],
                        s, Tail(prs))

\* Lines 107-147: self.append_by_pr(result), self being record s of heap h.
append_by_pr(h, res, s) ==
    LET pr_numbers == IF IsSome(h.emails[s].pr_numbers)
                      THEN Get(h.emails[s].pr_numbers) ELSE << >>
    IN IF res = << >>
       THEN [h |-> h, res |-> << s >>, events |-> << AppendEvent(h, s, 0) >>]
       ELSE PrLoop([h |-> h, res |-> res, events |-> << >>], s, pr_numbers)

\* ------------------------------------------------------------------ inputs
NoLists == [f \in ListFields |-> None]

\* A section map as it is passed to the constructor: its keys and, per key,
\* None or the list of items.
SectionMap(sonarItems, notesItems) ==
    [keys |-> { k \in Keys : (k = KEY_SONAR /\ sonarItems # "absent")
                          \/ (k = KEY_NOTES /\ notesItems # "absent") },
     val  |-> [k \in Keys |->
                LET c == IF k = KEY_SONAR THEN sonarItems ELSE notesItems IN
                CASE c = "absent" -> None
                  [] c = "none"   -> None
                  [] c = "empty"  -> Some(<< >>)
                  [] c = "fix"    -> Some(<< << "f", "i", "x" >> >>)
                  [] c = "sonar"  -> Some(<< << "o", "k" >>,
                                            << "S", "O", "N", "A", "R" >> >>)]]

\* PR-number arguments: None, one number, or two numbers in ascending order.
PRLists ==
    { None } \cup { Some(<< p >>) : p \in 1..MaxPR }
             \cup { Some(<< x[1], x[2] >>) :
                       x \in { y \in (1..MaxPR) \X (1..MaxPR) : y[1] < y[2] } }

\* Three emails that differ in every field a merge reads or must keep.
Variants == { "plain", "full", "other" }

Email(variant, prs) ==
    CASE variant = "plain" ->
           [subject |-> "s1", sender |-> None, date |-> None, message_id |-> None,
            pr_title |-> None, pr_numbers |-> prs, body |-> << >>,
            lf |-> NoLists, markdown |-> None,
            fields_set |-> { "subject", "body", "pr_numbers" }]
      [] variant = "full" ->
           [subject |-> "s2", sender |-> Some("u2"), date |-> Some("d2"),
            message_id |-> Some("m2"), pr_title |-> Some("t2"),
            pr_numbers |-> prs, body |-> << "a" >>,
            lf |-> [NoLists EXCEPT !["files_modified"] = Some({ "a.py" })],
            markdown |-> Some(SectionMap("absent", "fix")),
            fields_set |-> { "subject", "body", "pr_numbers", "sender", "date",
                             "message_id", "pr_title", "files_modified",
                             "markdown" }]
      [] variant = "other" ->
           [subject |-> "s3", sender |-> Some("u3"), date |-> Some("d3"),
            message_id |-> Some("m3"), pr_title |-> Some(" "),
            pr_numbers |-> prs, body |-> << "b" >>,
            lf |-> [NoLists EXCEPT !["files_modified"] = Some({ "b.py" }),
                                   !["tags"] = Some({ })],
            markdown |-> None,
            fields_set |-> { "subject", "body", "pr_numbers", "sender", "date",
                             "message_id", "pr_title", "files_modified", "tags",
                             "markdown" }]

\* The emails of the main specification.
Inputs == { Email(v, prs) : v \in Variants, prs \in PRLists }

\* What an email of the list-field specification passes for a list field:
\* nothing, None, [], or a list of one file name.
FieldArgs == { "unset", "none", "empty", "a", "b" }

FieldArg(c) ==
    CASE c = "unset" -> None
      [] c = "none"  -> None
      [] c = "empty" -> Some({ })
      [] c = "a"     -> Some({ "a.py" })
      [] c = "b"     -> Some({ "b.py" })

\* The list fields in two groups that are given values independently.
GroupA == { "repos", "commits", "tags", "linked_prs" }

\* An email for PR 1 whose list fields of GroupA are given ca and the others cb.
FieldEmail(ca, cb) ==
    [subject |-> "s1", sender |-> None, date |-> None, message_id |-> None,
     pr_title |-> None, pr_numbers |-> Some(<< 1 >>), body |-> << "a" >>,
     lf |-> [f \in ListFields |-> IF f \in GroupA THEN FieldArg(ca) ELSE FieldArg(cb)],
     markdown |-> None,
     fields_set |-> { "subject", "body", "pr_numbers" }
                    \cup { f \in ListFields :
                             IF f \in GroupA THEN ca # "unset" ELSE cb # "unset" }]

FieldInputs == { FieldEmail(ca, cb) : ca \in FieldArgs, cb \in FieldArgs }

\* What an email of the section specification passes per key.
SonarKeyArgs == { "absent", "none", "fix", "sonar" }
NotesKeyArgs == { "absent", "empty", "fix", "sonar" }

\* An email for PR 1 with a section map, or (unset) without the argument.
SectionEmail(md) ==
    [subject |-> "s1", sender |-> None, date |-> None, message_id |-> None,
     pr_title |-> None, pr_numbers |-> Some(<< 1 >>), body |-> << >>,
     lf |-> NoLists, markdown |-> md,
     fields_set |-> { "subject", "body", "pr_numbers" }
                    \cup (IF IsSome(md) THEN { "markdown" } ELSE { })]

SectionInputs ==
    { SectionEmail(None) }
    \cup { SectionEmail(Some(SectionMap(c1, c2))) :
              c1 \in SonarKeyArgs, c2 \in NotesKeyArgs }

\* ----------------------------------------------------------------- actions
\* No helper function is being called.
NoCall == [fn |-> "none", arg |-> None, ret |-> None, done |-> FALSE]

\* The empty accumulator and the empty heap.
EmptyFold ==
    /\ emails = << >>
    /\ dicts = << >>
    /\ lists = << >>
    /\ result = << >>
    /\ last = [self |-> 0, pre_result |-> << >>, pre_views |-> << >>,
               events |-> << >>]

Init ==
    /\ EmptyFold
    /\ call = NoCall

\* EmailMessage(**kw).append_by_pr(result): one email is built and folded into
\* the accumulator.
AppendByPr(kw) ==
    /\ Len(emails) < MaxCalls
    /\ LET h1  == EmailMessage(Heap, kw)
           s   == Len(h1.emails)
           out == append_by_pr(h1, result, s)
       IN /\ emails' = out.h.emails
          /\ dicts' = out.h.dicts
          /\ lists' = out.h.lists
          /\ result' = out.res
          /\ last' = [self |-> s,
                      pre_result |-> result,
                      pre_views |-> [i \in DOMAIN result |-> View(Heap, result[i])],
                      events |-> out.events]
          /\ UNCHANGED call

Next == \E kw \in Inputs : AppendByPr(kw)

Spec == Init /\ [][Next]_vars

\* The same fold over emails that differ in their list fields.
NextFields == \E kw \in FieldInputs : AppendByPr(kw)

SpecFields == Init /\ [][NextFields]_vars

\* The same fold over emails that differ in their section maps.
NextSections == \E kw \in SectionInputs : AppendByPr(kw)

SpecSections == Init /\ [][NextSections]_vars

\* ------------------------------------------------------- history, read back
\* The last call was made (the initial state has none).
Called == last.self # 0

\* The canonical records before the last call, as they are now.
NowView(i) == View(Heap, last.pre_result[i])

\* The events of the last call that merged the new record into a record.
MergeEvents == { k \in DOMAIN last.events : last.events[k].kind = "merge" }

\* The PR numbers of a record view, as a set.
PrSet(v) ==
    IF IsNone(v.pr_numbers) THEN { }
    ELSE { Get(v.pr_numbers)[i] : i \in DOMAIN Get(v.pr_numbers) }

\* The fields a merge must keep.
Identity(v) ==
    << v.sender, v.date, v.subject, v.message_id, v.pr_title, v.pr_numbers >>

\* The new record of the last call, as it was built.
NewRecord == View(Heap, last.self)

\* ------------------------------------------------------------------ claims
\* C1: a record without PR numbers is appended as a canonical record of its
\* own, whatever the accumulator holds: the list grows by exactly one, the new
\* record is its last element, and no record that was there changes.
C1_NoPrRecordAppended ==
    (Called /\ IsNone(emails[last.self].pr_numbers)) =>
        /\ Len(result) = Len(last.pre_result) + 1
        /\ result[Len(result)] = last.self
        /\ \A i \in DOMAIN last.pre_result : NowView(i) = last.pre_views[i]

\* C2: no PR number is held by two distinct canonical records.
C2_OneRecordPerPr ==
    \A i, j \in DOMAIN result :
        result[i] # result[j] =>
            PrSet(emails[result[i]]) \cap PrSet(emails[result[j]]) = { }

\* C3: when a canonical record already holds one of the PR numbers of the new
\* record, the call leaves the length of the canonical list unchanged.
C3_KnownPrKeepsLength ==
    (Called /\ \E i \in DOMAIN last.pre_result :
                  PrSet(last.pre_views[i]) \cap PrSet(NewRecord) # { })
        => Len(result) = Len(last.pre_result)

\* The merges of the last call into records that were canonical before it.
MergesIntoExisting ==
    { k \in MergeEvents :
        \E i \in DOMAIN last.pre_result :
            last.pre_result[i] = last.events[k].target }

\* C4: one call merges the new record into the first canonical record that
\* holds any of its PR numbers and into no other: at most one merge into an
\* existing record, and its target is the first holder in list order.
C4_MergedOnceIntoFirst ==
    Called =>
        /\ Cardinality(MergesIntoExisting) <= 1
        /\ \A k \in MergesIntoExisting :
              \E i \in DOMAIN last.pre_result :
                  /\ last.pre_result[i] = last.events[k].target
                  /\ PrSet(last.pre_views[i]) \cap PrSet(NewRecord) # { }
                  /\ \A j \in 1..(i - 1) :
                        PrSet(last.pre_views[j]) \cap PrSet(NewRecord) = { }

SetOf(v) == IF IsNone(v) THEN { } ELSE Get(v)

\* C6: after a merge every list field set on the new record holds, as a set,
\* the union of what the canonical record held and what the new record holds,
\* None counting as empty.
C6_ListFieldsUnion ==
    \A k \in MergeEvents :
        LET ev == last.events[k] IN
        \A f \in ListFields \cap ev.new.fields_set :
            SetOf(ev.post.lf[f]) = SetOf(ev.pre.lf[f]) \cup SetOf(ev.new.lf[f])

\* C6 witness: files {a.py} merged with {b.py} gave {a.py, b.py}, and a field
\* that was None adopted the new list.
C6_Witness ==
    \E k \in MergeEvents :
        LET ev == last.events[k] IN
        /\ ev.pre.lf["files_modified"] = Some({ "a.py" })
        /\ ev.new.lf["files_modified"] = Some({ "b.py" })
        /\ ev.post.lf["files_modified"] = Some({ "a.py", "b.py" })
        /\ IsNone(ev.pre.lf["repos"])
        /\ ev.post.lf["repos"] = Some({ "a.py" })

Items(v, key) ==
    IF IsNone(v.markdown) \/ key \notin Get(v.markdown).keys THEN None
    ELSE Get(v.markdown).val[key]

HasKey(v, key) == IsSome(v.markdown) /\ key \in Get(v.markdown).keys

NonEmptyItems(v, key) == IsSome(Items(v, key)) /\ Len(Get(Items(v, key))) > 0

\* The suppression rule as the specification words it: the key or the joined
\* new items hold "sonar", in any case of letters.
SonarRelated(key, items) ==
    Contains(Lower(key), SONAR) \/ Contains(Lower(Join(items, COMMA)), SONAR)

\* C8: for a key that is non-empty on both sides, when the key or the joined
\* new items hold "sonar", the merge leaves the items of that key unchanged.
C8_SonarSuppressed ==
    \A k \in MergeEvents :
        LET ev == last.events[k] IN
        \A key \in Keys :
            (/\ "markdown" \in ev.new.fields_set
             /\ NonEmptyItems(ev.pre, key)
             /\ NonEmptyItems(ev.new, key)
             /\ SonarRelated(key, Get(Items(ev.new, key))))
                => Items(ev.post, key) = Items(ev.pre, key)

\* C9: for each key of the new section map: a key that both sides hold with
\* items, and that is not sonar related, ends with the old items followed by
\* the new ones; a key the canonical record does not hold is adopted with the
\* new record's value.
C9_SectionsMergedKeyWise ==
    \A k \in MergeEvents :
        LET ev == last.events[k] IN
        \A key \in Keys :
            ("markdown" \in ev.new.fields_set /\ HasKey(ev.new, key)) =>
                /\ (/\ NonEmptyItems(ev.pre, key)
                    /\ NonEmptyItems(ev.new, key)
                    /\ ~SonarRelated(key, Get(Items(ev.new, key))))
                       => Items(ev.post, key) =
                            Some(Get(Items(ev.pre, key)) \o Get(Items(ev.new, key)))
                /\ ~HasKey(ev.pre, key)
                       => /\ HasKey(ev.post, key)
                          /\ Items(ev.post, key) = Items(ev.new, key)

\* C10: merging the record of the last call once more into the canonical
\* record it was merged into changes no list field, as a set.
C10_ListMergeIdempotent ==
    \A k \in MergeEvents :
        LET t     == last.events[k].target
            again == Merge(Heap, t, last.self)
        IN \A f \in ListFields :
              SetOf(again.emails[t].lf[f]) = SetOf(emails[t].lf[f])

\* C10 witness: the merge of the last call added a value to a list field of
\* a canonical record that held another.
C10_Witness ==
    \E k \in MergeEvents :
        LET ev == last.events[k] IN
        /\ ev.target # last.self
        /\ \E f \in ListFields :
              /\ SetOf(ev.pre.lf[f]) # { }
              /\ SetOf(ev.new.lf[f]) \ SetOf(ev.pre.lf[f]) # { }
              /\ SetOf(ev.post.lf[f]) # SetOf(ev.pre.lf[f])

\* ============================================================ helper calls
\* The helper functions of the pipeline are pure: each is checked by a
\* specification that starts with one call pending on an argument drawn from
\* a bounded set, and whose only action makes the call.

\* A pending call of fn on one of args, beside an empty accumulator.
Pending(fn, args) ==
    /\ EmptyFold
    /\ call \in { [fn |-> fn, arg |-> a, ret |-> None, done |-> FALSE] :
                     a \in args }

\* The pending call of fn returns v.
Return(fn, v) ==
    /\ call.fn = fn
    /\ ~call.done
    /\ call' = [call EXCEPT !.ret = v, !.done = TRUE]
    /\ UNCHANGED << emails, dicts, lists, result, last >>

\* The call of fn was made.
Done(fn) == call.fn = fn /\ call.done

\* -------------------------------------------- EmailMessage(**kw), by itself
\* The call returns the record EmailMessage(**kw) builds, as an observer sees
\* it.
Construct ==
    Return("EmailMessage",
           View(EmailMessage([emails |-> << >>, dicts |-> << >>, lists |-> << >>], call.arg), 1))

\* One constructor call: every list field is left out, None, [] or a list,
\* and pr_numbers is None, [] or [1].
SpecConstruct ==
    /\ Pending("EmailMessage",
               { [FieldEmail(ca, cb) EXCEPT !.pr_numbers = p] :
               ca \in FieldArgs, cb \in FieldArgs, p \in { None, Some(<< >>), Some(<< 1 >>) } })
    /\ [][Construct]_vars

\* The constructor call passed [] for the list field f.
PassedEmpty(f) == f \in call.arg.fields_set /\ call.arg.lf[f] = Some({ })

\* C11: a record constructed with an empty list for an optional list field
\* (pr_numbers, repos, tickets, commits, files_modified, tags, contributors,
\* linked_prs, linked_tickets) holds None in that field, never an empty list.
C11_EmptyListYieldsNone ==
    Done("EmailMessage") =>
        /\ call.arg.pr_numbers = Some(<< >>) => IsNone(call.ret.pr_numbers)
        /\ \A f \in ListFields : PassedEmpty(f) => IsNone(call.ret.lf[f])

\* ------------------------------------------------- text: classes and slices
\* The classes of the regular expressions: \d, \w and \s.
Digits == { "0", "1", "2", "3", "4", "5", "6", "7", "8", "9" }
WordChars ==
    { UpperChars[i] : i \in DOMAIN UpperChars }
    \cup { LowerChars[i] : i \in DOMAIN LowerChars } \cup Digits \cup { "_" }
SpaceChars == { " ", "\t", "\n", "\r", "\f" }

\* The length of the longest run of characters of class cls that starts at
\* position i of s (a greedy cls*).
RECURSIVE RunLen(_, _, _)
RunLen(s, i, cls) ==
    IF i > Len(s) \/ s[i] \notin cls THEN 0 ELSE 1 + RunLen(s, i + 1, cls)

\* The length of the longest run of characters outside cls that starts at
\* position i of s (a greedy [^cls]*).
RECURSIVE RunLenNot(_, _, _)
RunLenNot(s, i, cls) ==
    IF i > Len(s) \/ s[i] \in cls THEN 0 ELSE 1 + RunLenNot(s, i + 1, cls)

\* \b at the gap before position i of s: exactly one side is a word character.
WordBoundary(s, i) ==
    LET before == i > 1 /\ i - 1 <= Len(s) /\ s[i - 1] \in WordChars
        after  == i >= 1 /\ i <= Len(s) /\ s[i] \in WordChars
    IN before # after

\* ^ under re.MULTILINE at position i of s.
LineStart(s, i) == i = 1 \/ s[i - 1] = "\n"

\* s[a:b] with 1-based inclusive positions; empty when b < a.
Slice(s, a, b) == IF b < a THEN << >> ELSE SubSeq(s, a, b)

\* str.strip(chars): the characters of cls are removed from both ends.
StripChars(s, cls) ==
    LET lead  == RunLen(s, 1, cls)
        keep  == { i \in DOMAIN s : s[i] \notin cls }
        lastK == IF keep = { } THEN 0
                 ELSE CHOOSE i \in keep : \A j \in keep : j <= i
    IN Slice(s, lead + 1, lastK)

\* str.strip().
Strip(s) == StripChars(s, SpaceChars)

Min(S) == CHOOSE x \in S : \A y \in S : x <= y
Max(S) == CHOOSE x \in S : \A y \in S : y <= x

\* The sequences of at most n elements of T.
SeqsUpTo(T, n) == UNION { [1..k -> T] : k \in 0..n }

\* A call returns a value or raises.
Returned(v) == [raised |-> FALSE, value |-> v]
Raises == [raised |-> TRUE, value |-> None]

\* -------------------------------------------------------- extract_commits
SHA_MIN == 7
SHA_MAX == 40
SHORT_LEN == 7

\* COMMIT_SIMPLE tried at position p of text:
\*   ^[ \t]*([0-9a-f]{7,40})\b(?:\s+(.+))?   (re.MULTILINE)
\* The hexadecimal run is taken whole (a shorter one ends between two word
\* characters, where \b fails); \s+ gives back characters until one that is
\* not a newline follows, and (.+) runs to the end of that line.
COMMIT_SIMPLE(text, p) ==
    LET a  == p + RunLen(text, p, { " ", "\t" })
        n  == RunLen(text, a, (Digits \cup { "a", "b", "c", "d", "e", "f" }))
        e  == a + n
        w  == RunLen(text, e, SpaceChars)
        ks == { k \in 1..w : e + k <= Len(text) /\ text[e + k] # "\n" }
        g  == e + Max(ks)
        ge == g + RunLenNot(text, g, { "\n" }) - 1
    IN IF ~(LineStart(text, p) /\ n >= SHA_MIN /\ n <= SHA_MAX /\ WordBoundary(text, e))
       THEN None
       ELSE IF ks = { }
       THEN Some([sha |-> Slice(text, a, e - 1), msg |-> None, last |-> e - 1])
       ELSE Some([sha |-> Slice(text, a, e - 1),
                  msg |-> Some(Slice(text, g, ge)), last |-> ge])

\* COMMIT_SIMPLE.finditer(text), from position p on: the matches from left to
\* right, each search starting where the last match ended.
RECURSIVE CommitMatches(_, _)
CommitMatches(text, p) ==
    IF p > Len(text) THEN << >>
    ELSE LET m == COMMIT_SIMPLE(text, p) IN
         IF IsNone(m) THEN CommitMatches(text, p + 1)
         ELSE << Get(m) >> \o CommitMatches(text, Get(m).last + 1)

\* line.split(c, 1): one part when c is not in line, two otherwise.
SplitFirst(line, c) ==
    LET ps == { i \in DOMAIN line : line[i] = c } IN
    IF ps = { } THEN << line >>
    ELSE << Slice(line, 1, Min(ps) - 1), Slice(line, Min(ps) + 1, Len(line)) >>

\* CommitInfo(sha=sha, short=sha, message=msg.strip()).
CommitInfoWhole(sha, msg) ==
    [sha |-> sha, short |-> sha, message |-> Strip(msg)]

\* CommitInfo(sha=sha, short=sha[:7], message=msg.strip()).
CommitInfo(sha, msg) ==
    [sha |-> sha, short |-> Slice(sha, 1, Min({ SHORT_LEN, Len(sha) })),
     message |-> Strip(msg)]

\* parse_commit_lines(raw_commits): unpacking a line without a space into
\* (sha, msg) raises ValueError.
parse_commit_lines(raw_commits) ==
    IF \E i \in DOMAIN raw_commits : Len(SplitFirst(raw_commits[i], " ")) # 2
    THEN Raises
    ELSE Returned([i \in DOMAIN raw_commits |->
                     LET parts == SplitFirst(raw_commits[i], " ")
                     IN CommitInfo(parts[1], parts[2])])

\* extract_commits(text).
extract_commits(text) ==
    LET ms      == CommitMatches(text, 1)
        commits == [i \in DOMAIN ms |->
                      Strip(ms[i].sha \o << " " >>
                            \o (IF IsNone(ms[i].msg) THEN << >> ELSE Get(ms[i].msg)))]
        parsed  == parse_commit_lines(commits)
    IN IF parsed.raised THEN Raises
       ELSE IF Len(parsed.value) = 0 THEN Returned(None)
       ELSE Returned(Some(parsed.value))

\* Number of lines of a body, and of entries of a list of raw lines.
MaxLines == 3

\* text: lines joined by newlines.
TextOf(lines) == Join(lines, << "\n" >>)

ExtractCommits == Return("extract_commits", extract_commits(call.arg))

ParseCommitLines == Return("parse_commit_lines", parse_commit_lines(call.arg))

\* One call: extract_commits on a body of at most MaxLines lines (commits with
\* and without message, with an abbreviated and a longer SHA, indented, and
\* lines that are no commit), or parse_commit_lines on a list of raw lines.
SpecCommits ==
    /\ \/ Pending("extract_commits",
                   { TextOf(ls) : ls \in SeqsUpTo(
                       { << "a", "b", "c", "d", "e", "f", "0", " ", "f", "i", "x", " ", "i", "t" >>, << "0", "1", "2", "3", "4", "5", "6", "7", "8", "9", "a", "b", " ", "a", "d", "d" >>, << "a", "b", "c", "d", "e", "f", "0" >>, << " ", " ", "a", "b", "c", "d", "e", "f", "0", " ", " ", "f", "i", "x", " " >>, << "f", "i", "x", " ", "i", "t" >>, << >>, << "a", "b", "c", "d", "e", "f", "0", "g", " ", "x" >>, << "a", "b", "c", "d", "e", "f" >> }, MaxLines) })
       \/ Pending("parse_commit_lines",
                   SeqsUpTo(
                       { << "a", "b", "c", "d", "e", "f", "0", " ", "f", "i", "x", " ", "i", "t" >>, << "0", "1", "2", "3", "4", "5", "6", "7", "8", "9", "a", "b", " ", "a", "d", "d" >>, << "a", "b", "c", " ", "f", "i", "x" >>, << "a", "b", "c", "d", "e", "f", "0" >> }, MaxLines))
    /\ [][ExtractCommits \/ ParseCommitLines]_vars

\* The CommitInfo values the call returned.
ProducedCommits ==
    IF Done("parse_commit_lines") /\ ~call.ret.raised THEN call.ret.value
    ELSE IF Done("extract_commits") /\ ~call.ret.raised /\ IsSome(call.ret.value)
    THEN Get(call.ret.value)
    ELSE << >>

\* C12: every CommitInfo that extract_commits or parse_commit_lines returns
\* has short equal to the first 7 characters of sha, or to the whole sha when
\* it is shorter.
C12_ShortIsShaPrefix ==
    \A i \in DOMAIN ProducedCommits :
        LET c == ProducedCommits[i] IN
        c.short = (IF Len(c.sha) <= 7 THEN c.sha ELSE SubSeq(c.sha, 1, 7))

\* C12 witness: one call returned a commit whose sha is longer than 7
\* characters and one whose sha is shorter.
C12_Witness ==
    \E i, j \in DOMAIN ProducedCommits :
        /\ Len(ProducedCommits[i].sha) > 7
        /\ ProducedCommits[i].short # ProducedCommits[i].sha
        /\ Len(ProducedCommits[j].sha) < 7

\* ------------------------------------------- extract_metadata_from_subject
\* A pattern is given by the length of its match at each position of the
\* text (0: no match there; no pattern here matches the empty string).
\* re.finditer: the start positions of the matches, left to right, each
\* search starting where the last match ended.
RECURSIVE Scan(_, _)
Scan(lens, p) ==
    IF p > Len(lens) THEN << >>
    ELSE IF lens[p] > 0 THEN << p >> \o Scan(lens, p + lens[p])
    ELSE Scan(lens, p + 1)

\* re.sub(pattern, '', s) and str.replace(old, ''): s without the matches.
RECURSIVE Delete(_, _, _)
Delete(s, lens, p) ==
    IF p > Len(s) THEN << >>
    ELSE IF lens[p] > 0 THEN Delete(s, lens, p + lens[p])
    ELSE << s[p] >> \o Delete(s, lens, p + 1)

\* The literal lit stands at position p of s.
StartsWith(s, p, lit) ==
    p + Len(lit) - 1 <= Len(s) /\ SubSeq(s, p, p + Len(lit) - 1) = lit

\* The same under re.IGNORECASE.
StartsWithCI(s, p, lit) ==
    p + Len(lit) - 1 <= Len(s)
    /\ Lower(SubSeq(s, p, p + Len(lit) - 1)) = Lower(lit)

\* (?:PR\s*#|pull request\s*#|#) at p under re.IGNORECASE: its length, or 0.
PrMarker(s, p) ==
    LET PR_WORD == << "P", "R" >>
        PULL_REQUEST_WORDS == << "p", "u", "l", "l", " ", "r", "e", "q", "u", "e", "s", "t" >>
        \* One alternative word\s*# at p: its length, or 0.
        MarkerAfter(word) ==
            LET w == RunLen(s, p + Len(word), SpaceChars) IN
            IF /\ StartsWithCI(s, p, word)
               /\ StartsWith(s, p + Len(word) + w, << "#" >>)
            THEN Len(word) + w + 1
            ELSE 0
    IN IF MarkerAfter(PR_WORD) > 0 THEN MarkerAfter(PR_WORD)
       ELSE IF MarkerAfter(PULL_REQUEST_WORDS) > 0
       THEN MarkerAfter(PULL_REQUEST_WORDS)
       ELSE IF StartsWith(s, p, << "#" >>) THEN 1
       ELSE 0

\* PR_FROM_SUBJECT: (?:PR\s*#|pull request\s*#|#)(\d+), re.IGNORECASE.
PR_FROM_SUBJECT(s) ==
    [p \in 1..Len(s) |->
        LET k == PrMarker(s, p)
            d == RunLen(s, p + k, Digits)
        IN IF k > 0 /\ d > 0 THEN k + d ELSE 0]

\* REPO_FROM_SUBJECT: \[([^\]]+)\].
REPO_FROM_SUBJECT(s) ==
    [p \in 1..Len(s) |->
        LET n == RunLenNot(s, p + 1, { "]" }) IN
        IF s[p] = "[" /\ n >= 1 /\ p + 1 + n <= Len(s) THEN n + 2 ELSE 0]

\* TICKET_FROM_SUBJECT: \b([A-Z]+-\d+)\b.
TICKET_FROM_SUBJECT(s) ==
    [p \in 1..Len(s) |->
        LET n == RunLen(s, p, { UpperChars[i] : i \in DOMAIN UpperChars })
            d == RunLen(s, p + n + 1, Digits)
        IN IF /\ WordBoundary(s, p)
              /\ n >= 1
              /\ StartsWith(s, p + n, << "-" >>)
              /\ d >= 1
              /\ WordBoundary(s, p + n + 1 + d)
           THEN n + 1 + d ELSE 0]

\* extract_contributors(body): the names MENTION_RE, @([A-Za-z0-9-]+), finds,
\* as list(set(...)).
extract_contributors(body) ==
    LET lens == [p \in 1..Len(body) |->
                   LET n == RunLen(body, p + 1,
                                   (WordChars \ { "_" }) \cup { "-" })
                   IN IF body[p] = "@" /\ n >= 1 THEN n + 1 ELSE 0]
        at   == Scan(lens, 1)
    IN { Slice(body, at[i] + 1, at[i] + lens[at[i]] - 1) : i \in DOMAIN at }

\* Lines 186-187: for every repo, clean_title.replace(f'[{repo}]', '').
RECURSIVE RemoveRepos(_, _)
RemoveRepos(title, repos) ==
    IF Len(repos) = 0 THEN title
    ELSE LET old == << "[" >> \o Head(repos) \o << "]" >> IN
         RemoveRepos(
             Delete(title,
                    [q \in 1..Len(title) |->
                        IF StartsWith(title, q, old) THEN Len(old) ELSE 0],
                    1),
             Tail(repos))

\* Lines 190-196: for every number p,
\* re.sub(rf'(PR\s*#|pull request\s*#|#){p}', '', clean_title, flags=re.I).
RECURSIVE RemovePrs(_, _)
RemovePrs(title, prs) ==
    IF Len(prs) = 0 THEN title
    ELSE LET p == Head(prs) IN
         RemovePrs(
             Delete(title,
                    [q \in 1..Len(title) |->
                        LET k == PrMarker(title, q) IN
                        IF k > 0 /\ StartsWith(title, q + k, p)
                        THEN k + Len(p) ELSE 0],
                    1),
             Tail(prs))

\* Lines 199-200: for every ticket t,
\* re.sub(rf'\b{t}[:\-\s]*', '', clean_title).
RECURSIVE RemoveTickets(_, _)
RemoveTickets(title, ts) ==
    IF Len(ts) = 0 THEN title
    ELSE LET t == Head(ts) IN
         RemoveTickets(
             Delete(title,
                    [q \in 1..Len(title) |->
                        IF WordBoundary(title, q) /\ StartsWith(title, q, t)
                        THEN Len(t) + RunLen(title, q + Len(t),
                                             SpaceChars \cup { ":", "-" })
                        ELSE 0],
                    1),
             Tail(ts))

\* x or None, for a list or a string.
OrNone(x) == IF Len(x) = 0 THEN None ELSE Some(x)

\* extract_metadata_from_subject(subject).
extract_metadata_from_subject(subject) ==
    LET rl      == REPO_FROM_SUBJECT(subject)
        ra      == Scan(rl, 1)
        repos   == [i \in DOMAIN ra |->
                      Slice(subject, ra[i] + 1, ra[i] + rl[ra[i]] - 2)]
        pl      == PR_FROM_SUBJECT(subject)
        pa      == Scan(pl, 1)
        pr_numbers ==
            [i \in DOMAIN pa |->
                Slice(subject, pa[i] + PrMarker(subject, pa[i]),
                      pa[i] + pl[pa[i]] - 1)]
        tl      == TICKET_FROM_SUBJECT(subject)
        ta      == Scan(tl, 1)
        tickets == [i \in DOMAIN ta |->
                      Slice(subject, ta[i], ta[i] + tl[ta[i]] - 1)]
        contributors == extract_contributors(subject)
        clean_title ==
            RemoveTickets(RemovePrs(RemoveRepos(subject, repos), pr_numbers),
                          tickets)
    IN [repos        |-> OrNone(repos),
        pr_numbers   |-> OrNone(pr_numbers),
        tickets      |-> OrNone(tickets),
        pr_title     |-> OrNone(StripChars(clean_title, { " ", "-", ":", "_" })),
        contributors |-> IF contributors = { } THEN None ELSE Some(contributors)]

\* Number of tokens of a subject.
MaxTokens == 3

ExtractMetadataFromSubject ==
    Return("extract_metadata_from_subject",
           extract_metadata_from_subject(call.arg))

\* One call on a subject of at most MaxTokens pieces: a repo span that holds a
\* number, PR markers, a ticket, a mention, words and separators.
SpecSubject ==
    /\ Pending("extract_metadata_from_subject",
               { Join(t, << >>) : t \in SeqsUpTo(
                   { << "[", "o", "r", "g", "/", "r", "e", "p", "o", "#", "1", "2", "]" >>, << "P", "R", " ", "#", "7" >>, << "#", "1", "2" >>, << "F", "i", "x" >>, << " " >>, << ":" >>, << "-" >>, << "\t" >>, << "\n" >>, << "F", "O", "O", "-", "1" >>, << "@", "b", "o", "b" >> }, MaxTokens) })
    /\ [][ExtractMetadataFromSubject]_vars

\* The characters a title may not start or end with.
Separators == { "-", ":", "_", " ", "\t", "\n" }

\* C13: for every subject, the pr_title of extract_metadata_from_subject is
\* None or a non-empty string whose first and last characters are none of
\* '-', ':', '_' and no whitespace character (space, tab, newline).
C13_TitleHasNoOuterSeparator ==
    Done("extract_metadata_from_subject") =>
        LET t == call.ret.pr_title IN
        IsSome(t) => /\ Len(Get(t)) > 0
                     /\ Get(t)[1] \notin Separators
                     /\ Get(t)[Len(Get(t))] \notin Separators

\* The bracketed repo spans of a subject, as position intervals.
RepoSpans(s) ==
    LET rl == REPO_FROM_SUBJECT(s)
        ra == Scan(rl, 1)
    IN { [from |-> ra[i], to |-> ra[i] + rl[ra[i]] - 1] : i \in DOMAIN ra }

\* The PR references of a subject: where each starts and the number it names.
PrOccurrences(s) ==
    LET pl == PR_FROM_SUBJECT(s)
        pa == Scan(pl, 1)
    IN { [at |-> pa[i],
          number |-> Slice(s, pa[i] + PrMarker(s, pa[i]), pa[i] + pl[pa[i]] - 1)] :
            i \in DOMAIN pa }

\* The reference occ lies outside every repo span of s.
OutsideRepoSpans(s, occ) ==
    \A sp \in RepoSpans(s) : occ.at < sp.from \/ occ.at > sp.to

\* C14: a number that occurs only inside a bracketed repo span of the subject
\* (as '#12' in '[org/repo#12]') is not among the pr_numbers returned: every
\* returned number has a reference outside the repo spans.
C14_RepoSpanNumbersNotPrNumbers ==
    Done("extract_metadata_from_subject") =>
        LET nums == IF IsNone(call.ret.pr_numbers) THEN << >>
                    ELSE Get(call.ret.pr_numbers)
        IN \A i \in DOMAIN nums :
              \E occ \in PrOccurrences(call.arg) :
                  occ.number = nums[i] /\ OutsideRepoSpans(call.arg, occ)

\* ------------------------------------------ the PR numbers of a built record
\* int(s) of a string of digits.
RECURSIVE ParseInt(_)
ParseInt(ds) ==
    LET DigitSeq == << "0", "1", "2", "3", "4", "5", "6", "7", "8", "9" >>
        DigitValue(c) == (CHOOSE i \in DOMAIN DigitSeq : DigitSeq[i] = c) - 1
    IN IF Len(ds) = 0 THEN 0
       ELSE 10 * ParseInt(SubSeq(ds, 1, Len(ds) - 1)) + DigitValue(ds[Len(ds)])

\* extract_pr_from_message_id(msgid): the number of the first match of
\* PR_MSGID_RE, /pull/(\d+)/.
extract_pr_from_message_id(msgid) ==
    LET PULL_SEGMENT == << "/", "p", "u", "l", "l", "/" >>
        lens == [p \in 1..Len(msgid) |->
                   LET d == RunLen(msgid, p + Len(PULL_SEGMENT), Digits) IN
                   IF /\ StartsWith(msgid, p, PULL_SEGMENT)
                      /\ d >= 1
                      /\ StartsWith(msgid, p + Len(PULL_SEGMENT) + d, << "/" >>)
                   THEN Len(PULL_SEGMENT) + d + 1 ELSE 0]
        at   == Scan(lens, 1)
    IN IF Len(msgid) = 0 \/ Len(at) = 0 THEN None
       ELSE Some(ParseInt(Slice(msgid, at[1] + Len(PULL_SEGMENT),
                                at[1] + lens[at[1]] - 2)))

\* The elements of the list pr_numbers: strings from the subject, an int from
\* the message-id.  A string never equals an int.
StrValue(s) == [kind |-> "str", text |-> s, num |-> 0]
IntValue(n) == [kind |-> "int", text |-> << >>, num |-> n]

\* The list the builders start from: the subject's numbers pr_subject_list,
\* and the number pr_from_msgid of the message-id appended when it is truthy
\* and not in the list.
MergedPrList(pr_subject_list, pr_from_msgid) ==
    LET pr_numbers ==
            IF IsNone(pr_subject_list) THEN << >>
            ELSE [i \in DOMAIN Get(pr_subject_list) |->
                     StrValue(Get(pr_subject_list)[i])]
    IN IF /\ IsSome(pr_from_msgid)
          /\ Get(pr_from_msgid) # 0
          /\ \A i \in DOMAIN pr_numbers : pr_numbers[i] # IntValue(Get(pr_from_msgid))
       THEN Append(pr_numbers, IntValue(Get(pr_from_msgid)))
       ELSE pr_numbers

\* [int(v) for v in value].
IntsOf(values) ==
    [i \in DOMAIN values |->
        IF values[i].kind = "int" THEN values[i].num
        ELSE ParseInt(values[i].text)]

\* The elements of a list, as a set.
Range(s) == { s[i] : i \in DOMAIN s }

\* list(set(xs)): the elements without duplicates, in an order set() chooses.
ListsOfSet(S) ==
    { f \in [1..Cardinality(S) -> S] : Range(f) = S }

\* The headers of a message: a subject of at most MaxTokens pieces and a
\* message-id with or without a /pull/N/ segment.
BuilderInputs ==
    { [subject |-> Join(t, << >>), message_id |-> m] :
         t \in SeqsUpTo(
             { << "#", "1", "2" >>, << "P", "R", " ", "#", "7" >>, << "#", "0" >>, << "F", "i", "x" >>, << " " >> }, MaxTokens),
         m \in { << >>, << "<", "a", "@", "b", ">" >>, << "<", "r", "/", "p", "u", "l", "l", "/", "1", "2", "/", "c", "@", "x", ">" >>, << "<", "r", "/", "p", "u", "l", "l", "/", "0", "/", "c", "@", "x", ">" >>, << "<", "r", "/", "p", "u", "l", "l", "/", "7", "/", "c", "@", "x", ">" >>, << "<", "r", "/", "p", "u", "l", "l", "/", "1", "2", "@", "x", ">" >> } }

\* src/extract_emails_from_mbox.py: the list goes to the constructor as it
\* is, and the validator converts its elements.
BuildRoot ==
    /\ call.fn = "extract_emails_from_mbox"
    /\ \E pr_subject_list \in
             { extract_metadata_from_subject(call.arg.subject).pr_numbers },
          pr_from_msgid \in { extract_pr_from_message_id(call.arg.message_id) } :
          Return("extract_emails_from_mbox",
                 [pr_numbers |->
                     convert_pr_numbers(OrNone(IntsOf(
                         MergedPrList(pr_subject_list, pr_from_msgid))))])

\* src/_internal/extract_emails_from_mbox.py: the elements are converted and
\* the list is rebuilt from a set before it goes to the constructor.
BuildInternal ==
    /\ call.fn = "_internal.extract_emails_from_mbox"
    /\ \E pr_subject_list \in
             { extract_metadata_from_subject(call.arg.subject).pr_numbers },
          pr_from_msgid \in { extract_pr_from_message_id(call.arg.message_id) } :
          \E l \in ListsOfSet(Range(IntsOf(
                    MergedPrList(pr_subject_list, pr_from_msgid)))) :
             Return("_internal.extract_emails_from_mbox",
                    [pr_numbers |-> convert_pr_numbers(OrNone(l))])

SpecBuilder ==
    /\ \/ Pending("extract_emails_from_mbox", BuilderInputs)
       \/ Pending("_internal.extract_emails_from_mbox", BuilderInputs)
    /\ [][BuildRoot \/ BuildInternal]_vars

\* One of the builders made a record.
Built == Done("extract_emails_from_mbox") \/ Done("_internal.extract_emails_from_mbox")

\* The numbers a record should hold: those the subject parser returns and the
\* N of the first /pull/N/ of the message-id.
ExpectedPrSet ==
    LET fromSubject == extract_metadata_from_subject(call.arg.subject).pr_numbers
        fromMsgid   == extract_pr_from_message_id(call.arg.message_id)
    IN (IF IsNone(fromSubject) THEN { }
        ELSE { ParseInt(Get(fromSubject)[i]) : i \in DOMAIN Get(fromSubject) })
       \cup (IF IsNone(fromMsgid) THEN { } ELSE { Get(fromMsgid) })

\* C15: the pr_numbers of every built record is the duplicate-free union of
\* the subject's PR numbers and the number N of the /pull/N/ segment of the
\* message-id, for every N >= 0 and also when N is in the subject; it is None
\* when both are empty.
C15_PrNumbersIsUnion ==
    Built =>
        LET prs == call.ret.pr_numbers IN
        IF ExpectedPrSet = { } THEN IsNone(prs)
        ELSE /\ IsSome(prs)
             /\ Range(Get(prs)) = ExpectedPrSet
             /\ Len(Get(prs)) = Cardinality(ExpectedPrSet)

\* ------------------------------------------------------------ extract_body
\* A message is a leaf part with a content type and the bytes of
\* get_payload(decode=True), or a multipart container of parts; a container
\* has no payload of its own (get_payload(decode=True) is None).
Leaf(ctype, payload) ==
    [multipart |-> FALSE, ctype |-> ctype, payload |-> payload, parts |-> << >>]
Multipart(parts) ==
    [multipart |-> TRUE, ctype |-> "multipart/mixed", payload |-> << >>,
     parts |-> parts]

\* payload.decode(errors='ignore'): the invalid bytes are dropped ("0xFF" is a
\* byte that is no valid UTF-8 on its own).
Decode(payload) == SelectSeq(payload, LAMBDA b : b # "0xFF")

\* msg.walk(): the message, then the parts of each of its parts, depth first.
RECURSIVE Walk(_)
RECURSIVE WalkAll(_)
Walk(msg) == << msg >> \o WalkAll(msg.parts)
WalkAll(parts) ==
    IF Len(parts) = 0 THEN << >> ELSE Walk(Head(parts)) \o WalkAll(Tail(parts))

\* The text nodes of an HTML payload from position p on: the runs between
\* its markup tokens.
RECURSIVE TextNodes(_, _)
TextNodes(html, p) ==
    LET HtmlTags == { "<b>", "</b>", "<p>", "</p>", "<br>" } IN
    IF p > Len(html) THEN << >>
    ELSE IF html[p] \in HtmlTags THEN TextNodes(html, p + 1)
    ELSE LET n == RunLenNot(html, p, HtmlTags) IN
         << Slice(html, p, p + n - 1) >> \o TextNodes(html, p + n)

\* clean_html(html): BeautifulSoup(html).get_text("\n", strip=True), the
\* stripped non-empty text nodes joined by newlines.
clean_html(html) ==
    LET nodes    == TextNodes(html, 1)
        stripped == [i \in DOMAIN nodes |-> Strip(nodes[i])]
    IN Join(SelectSeq(stripped, LAMBDA t : Len(t) > 0), << "\n" >>)

\* Lines 118-126 with the two tests swapped.
ChooseBodyHtmlFirst(plain, html) ==
    IF Len(html) > 0 THEN Join(html, << "\n" >>)
    ELSE IF Len(plain) > 0 THEN Join(plain, << "\n" >>)
    ELSE << >>

\* Lines 118-126: plain text is preferred, cleaned HTML is the fallback.
ChooseBody(plain, html) ==
    IF Len(plain) > 0 THEN Join(plain, << "\n" >>)
    ELSE IF Len(html) > 0 THEN Join(html, << "\n" >>)
    ELSE << >>

\* extract_body(msg).
extract_body(msg) ==
    IF ~msg.multipart THEN Decode(msg.payload)
    ELSE LET withPayload == SelectSeq(Walk(msg), LAMBDA part : ~part.multipart)
             plainParts  == SelectSeq(withPayload, LAMBDA part : part.ctype = "text/plain")
             htmlParts   == SelectSeq(withPayload, LAMBDA part : part.ctype = "text/html")
             plain == [i \in DOMAIN plainParts |-> Decode(plainParts[i].payload)]
             html  == [i \in DOMAIN htmlParts |->
                         clean_html(Decode(htmlParts[i].payload))]
         IN ChooseBody(plain, html)

\* Number of parts of the outer container.
MaxParts == 3

\* The messages: a leaf part (plain text, one empty and one with an
\* invalid byte; HTML; an attachment), or a container of at most MaxParts
\* parts, leaves or nested containers.
Messages ==
    LET LeafParts ==
            { Leaf("text/plain", << "p" >>), Leaf("text/plain", << "q", "0xFF" >>),
            Leaf("text/plain", << >>),
            Leaf("text/html", << "<b>", "h", "</b>" >>),
            Leaf("text/html", << "<p>", " ", "h", " ", "</p>", "<br>", "g" >>),
            Leaf("image/png", << "x" >>) }
        InnerParts ==
            { Multipart(<< Leaf("text/plain", << "p" >>), Leaf("text/html", << "<b>", "h", "</b>" >>) >>),
            Multipart(<< Leaf("text/html", << "<b>", "h", "</b>" >>), Leaf("text/plain", << "q", "0xFF" >>) >>),
            Multipart(<< Leaf("image/png", << "x" >>) >>) }
    IN LeafParts
       \cup { Multipart(ps) :
                ps \in SeqsUpTo(LeafParts \cup InnerParts, MaxParts) }

ExtractBody == Return("extract_body", extract_body(call.arg))

SpecBody == Pending("extract_body", Messages) /\ [][ExtractBody]_vars

\* The leaf parts of a message in document order.
RECURSIVE LeavesOf(_)
RECURSIVE LeavesOfAll(_)
LeavesOf(msg) == IF msg.multipart THEN LeavesOfAll(msg.parts) ELSE << msg >>
LeavesOfAll(parts) ==
    IF Len(parts) = 0 THEN << >>
    ELSE LeavesOf(Head(parts)) \o LeavesOfAll(Tail(parts))

\* The decoded payloads of the leaf parts of type ctype, in part order.
PartTexts(msg, ctype) ==
    LET ls == SelectSeq(LeavesOf(msg), LAMBDA l : l.ctype = ctype)
    IN [i \in DOMAIN ls |-> SelectSeq(ls[i].payload, LAMBDA b : b # "0xFF")]

\* The characters that come from HTML payloads only.
HtmlText == { "h", "g" }

RENAME_DIGITS == 3

\* FILE_PATH tried at position p of text:
\*   ^[ \t]*(?:M|A|D|R\d{1,3})\s+(?:a/|b/)?([A-Za-z0-9_./\-\+]+)   (re.MULTILINE)
\* The result holds the length of the match and the bounds of the path; the
\* prefix is given back when no path character follows it.
FILE_PATH(text, p) ==
    LET PathChars == WordChars \cup { ".", "/", "-", "+" }
        a  == p + RunLen(text, p, { " ", "\t" })
        d  == RunLen(text, a + 1, Digits)
        st == IF a > Len(text) THEN 0
              ELSE IF text[a] \in { "M", "A", "D" } THEN 1
              ELSE IF text[a] = "R" /\ d >= 1 /\ d <= RENAME_DIGITS
              THEN 1 + d
              ELSE 0
        w  == RunLen(text, a + st, SpaceChars)
        q  == a + st + w
        prefixed == /\ \/ StartsWith(text, q, << "a", "/" >>)
                       \/ StartsWith(text, q, << "b", "/" >>)
                    /\ RunLen(text, q + 2, PathChars) >= 1
        from == IF prefixed THEN q + 2 ELSE q
        n  == RunLen(text, from, PathChars)
    IN IF LineStart(text, p) /\ st > 0 /\ w >= 1 /\ n >= 1
       THEN [len |-> from + n - p, from |-> from, to |-> from + n - 1]
       ELSE [len |-> 0, from |-> 0, to |-> 0]

\* re.sub(r'\(\d+\)$', '', m): a trailing "(digits)" is removed.
RemoveCount(m) ==
    LET closes == Len(m) >= 3 /\ m[Len(m)] = ")"
        ds     == { k \in 1..(Len(m) - 2) :
                      /\ m[Len(m) - k - 1] = "("
                      /\ \A j \in (Len(m) - k)..(Len(m) - 1) : m[j] \in Digits }
    IN IF closes /\ ds # { } THEN Slice(m, 1, Len(m) - Min(ds) - 2) ELSE m

\* path.split(sep): the parts between the separators, empty ones included.
RECURSIVE Split(_, _)
Split(s, sep) ==
    LET ps == { i \in DOMAIN s : s[i] = sep } IN
    IF ps = { } THEN << s >>
    ELSE << Slice(s, 1, Min(ps) - 1) >> \o Split(Slice(s, Min(ps) + 1, Len(s)), sep)

\* The concatenation of a list of lists.
RECURSIVE Concat(_)
Concat(ls) == IF Len(ls) = 0 THEN << >> ELSE Head(ls) \o Concat(Tail(ls))

\* extract_files_modified(text): the paths FILE_PATH.findall captures, left
\* to right, cleaned and split into their parts; a list without duplicates in
\* the order set() gives it, kept as the set of its elements; [] when nothing
\* is found.
extract_files_modified(text) ==
    LET at          == Scan([p \in 1..Len(text) |-> FILE_PATH(text, p).len], 1)
        raw_matches == [i \in DOMAIN at |->
                          Slice(text, FILE_PATH(text, at[i]).from,
                                FILE_PATH(text, at[i]).to)]
        cleaned     == [i \in DOMAIN raw_matches |->
                          Strip(RemoveCount(raw_matches[i]))]
        flat_parts  == Concat([i \in DOMAIN cleaned |-> Split(cleaned[i], "/")])
    IN Returned(Some(Range(flat_parts)))

ExtractFilesModified ==
    Return("extract_files_modified", extract_files_modified(call.arg))

\* One call on a body of at most MaxLines lines: status lines with a path of
\* several segments, of one segment, with a prefix, a rename, a change count,
\* a bare status letter, and lines that are no status line.
SpecFiles ==
    /\ Pending("extract_files_modified",
               { TextOf(ls) : ls \in SeqsUpTo(
                   { << "M", " ", "s", "r", "c", "/", "c", "o", "r", "e", "/", "i", "n", "d", "e", "x", ".", "p", "y" >>, << "A", " ", "f", "i", "l", "e", ".", "j", "s" >>, << "D", " ", "a", "/", "o", "l", "d", "/", "m", ".", "c" >>, << "R", "1", "0", "0", " ", "a", "/", "p", ".", "p", "y", " ", "b", "/", "q", ".", "p", "y" >>, << " ", " ", "M", "\t", "s", "r", "c", "/", "x", ".", "p", "y", " ", "(", "3", ")" >>, << "M" >>, << "f", "i", "x", " ", "i", "t" >>, << >>, << "R", "1", "0", "0", "0", " ", "x" >> }, MaxLines) })
    /\ [][ExtractFilesModified]_vars

\* The paths of the diff status lines of a text: each line is read by itself.
StatusLinePaths(text) ==
    LET ls == Split(text, "\n") IN
    { Slice(ls[i], FILE_PATH(ls[i], 1).from, FILE_PATH(ls[i], 1).to) :
         i \in { j \in DOMAIN ls : FILE_PATH(ls[j], 1).len > 0 } }

\* The files the call returned.
FilesReturned == Get(call.ret.value)

\* C17: for every diff status line of the body (M, A, D or R and 1-3 digits,
\* then a path with an optional a/ or b/ prefix) the result of
\* extract_files_modified holds every '/'-separated segment of the path and
\* not the joined path (of a path of several segments; a path of one segment
\* is its own segment); 'M src/core/index.py' yields exactly src, core and
\* index.py.
C17_PathsFlattened ==
    Done("extract_files_modified") =>
        /\ \A path \in StatusLinePaths(call.arg) :
              /\ Range(Split(path, "/")) \subseteq FilesReturned
              /\ Len(Split(path, "/")) > 1 => path \notin FilesReturned
        /\ call.arg = << "M", " ", "s", "r", "c", "/", "c", "o", "r", "e", "/", "i", "n", "d", "e", "x", ".", "p", "y" >>
              => FilesReturned = { << "s", "r", "c" >>, << "c", "o", "r", "e" >>, << "i", "n", "d", "e", "x", ".", "p", "y" >> }

\* ------------------------------------ extract_heading_sections_with_content
\* text.splitlines(): "\r\n" is one boundary, and a boundary at the end of
\* the text starts no line.
RECURSIVE SplitLines(_)
SplitLines(text) ==
    IF Len(text) = 0 THEN << >>
    ELSE LET n   == RunLenNot(text, 1, { "\n", "\r", "\f" })
             brk == IF StartsWith(text, n + 1, << "\r", "\n" >>) THEN 2 ELSE 1
         IN << Slice(text, 1, n) >> \o SplitLines(Slice(text, n + brk + 1, Len(text)))

\* line.rstrip().
RStrip(s) ==
    LET keep == { i \in DOMAIN s : s[i] \notin SpaceChars }
    IN IF keep = { } THEN << >> ELSE Slice(s, 1, Max(keep))

HEADING_MAX == 6

\* HEADING_RE.match(raw) on one line: ^(#{1,6})\s+(.*)$; the result is
\* m.group(2).strip(), or None when the line does not match.
HEADING_RE(raw) ==
    LET h == RunLen(raw, 1, { "#" })
        w == RunLen(raw, h + 1, SpaceChars)
    IN IF h >= 1 /\ h <= HEADING_MAX /\ w >= 1
       THEN Some(Strip(Slice(raw, h + w + 1, Len(raw))))
       ELSE None

\* PLAIN_HEADING_RE.match(raw) on one line, under re.IGNORECASE: the result is
\* m.group(1).strip() of the first alternative that matches, or None.
PLAIN_HEADING_RE(raw) ==
    LET \* The alternatives, in the order of the pattern.
        PlainHeadings ==
            << << "C", "o", "m", "m", "i", "t", " ", "S", "u", "m", "m", "a", "r", "y" >>, << "F", "i", "l", "e", " ", "C", "h", "a", "n", "g", "e", "s" >>, << "W", "h", "a", "t", " ", "c", "h", "a", "n", "g", "e", "d", "?" >>, << "W", "h", "a", "t", " ", "c", "h", "a", "n", "g", "e", "d" >>, << "S", "u", "m", "m", "a", "r", "y" >>, << "I", "m", "p", "l", "e", "m", "e", "n", "t", "a", "t", "i", "o", "n", " ", "D", "e", "t", "a", "i", "l", "s" >>, << "I", "m", "p", "l", "e", "m", "e", "n", "t", "a", "t", "i", "o", "n" >>, << "T", "e", "s", "t", "i", "n", "g", " ", "N", "o", "t", "e", "s" >>, << "C", "h", "a", "n", "g", "e", "l", "o", "g" >>, << "D", "e", "s", "c", "r", "i", "p", "t", "i", "o", "n" >> >>
        \* \s*(?:\(.+\))?$ on the rest of the line: only whitespace, or
        \* whitespace and a parenthesis that is not empty and closes at the
        \* end of the line.
        PlainSuffix(rest) ==
            LET w == RunLen(rest, 1, SpaceChars) IN
            \/ w = Len(rest)
            \/ /\ StartsWith(rest, w + 1, << "(" >>)
               /\ Len(rest) >= w + 3
               /\ rest[Len(rest)] = ")"
        ok == { i \in DOMAIN PlainHeadings :
                  /\ StartsWithCI(raw, 1, PlainHeadings[i])
                  /\ PlainSuffix(Slice(raw, Len(PlainHeadings[i]) + 1, Len(raw))) }
    IN IF ok = { } THEN None
       ELSE Some(Strip(Slice(raw, 1, Len(PlainHeadings[Min(ok)]))))

\* Lines 71-72, 80-81 and 90-91: the current section is saved when it has a
\* heading or lines.
SaveSection(st) ==
    IF IsSome(st.heading) \/ Len(st.lines) > 0
    THEN Append(st.sections, [heading |-> st.heading, lines |-> st.lines])
    ELSE st.sections

\* A heading line that does not reset current_lines.
StartSectionKeepingLines(st, title) ==
    [sections |-> SaveSection(st), heading |-> Some(title), lines |-> st.lines]

\* Lines 69-75 and 79-84: a heading line saves the section and starts one.
StartSection(st, title) ==
    [sections |-> SaveSection(st), heading |-> Some(title), lines |-> << >>]

\* Lines 62-87: the loop over the lines ls of the body, from the state st.
RECURSIVE SectionLoop(_, _)
SectionLoop(st, ls) ==
    IF Len(ls) = 0 THEN st
    ELSE LET raw  == RStrip(Head(ls))
             next ==
                 IF Len(Strip(raw)) = 0 THEN st
                 ELSE IF IsSome(HEADING_RE(raw))
                 THEN StartSection(st, Get(HEADING_RE(raw)))
                 ELSE IF IsSome(PLAIN_HEADING_RE(raw))
                 THEN StartSection(st, Get(PLAIN_HEADING_RE(raw)))
                 ELSE [st EXCEPT !.lines = Append(st.lines, raw)]
         IN SectionLoop(next, Tail(ls))

\* extract_heading_sections_with_content(text): the list of
\* (heading, lines) pairs; the loop starts with no section, no heading and no
\* lines.
extract_heading_sections_with_content(text) ==
    SaveSection(SectionLoop([sections |-> << >>, heading |-> None,
                             lines |-> << >>],
                            SplitLines(text)))

ExtractHeadingSections ==
    Return("extract_heading_sections_with_content",
           extract_heading_sections_with_content(call.arg))

\* One call on a body of at most MaxLines lines: headings of both kinds, one
\* with trailing blanks, content with and without trailing blanks, blank
\* lines, lines that only look like headings, and a line that holds a
\* carriage return.
SpecHeadings ==
    /\ Pending("extract_heading_sections_with_content",
               { TextOf(ls) : ls \in SeqsUpTo(
                   { << "#", " ", "T" >>, << "#", "#", " ", "U", " ", " " >>, << "f", "o", "o", " ", " " >>, << "b", "a", "r" >>, << >>, << " ", " " >>, << "S", "u", "m", "m", "a", "r", "y", " ", "(", "3", ")" >>, << "c", "h", "a", "n", "g", "e", "l", "o", "g" >>, << " ", " ", "#", " ", "n", "o", "t" >>, << "#", "#", "#", "#", "#", "#", "#", " ", "x" >>, << "x", "\r", "y" >> }, MaxLines) })
    /\ [][ExtractHeadingSections]_vars

\* The lines of the body of the call.
BodyLines == SplitLines(call.arg)

\* The title of a heading line (None for any other line); trailing whitespace
\* does not count.
TitleOf(line) ==
    LET raw == RStrip(line) IN
    IF IsSome(HEADING_RE(raw)) THEN HEADING_RE(raw) ELSE PLAIN_HEADING_RE(raw)

\* The positions of the body's non-blank, non-heading lines, in order.
ContentAt ==
    SelectSeq([i \in DOMAIN BodyLines |-> i],
              LAMBDA i : Len(Strip(BodyLines[i])) > 0 /\ IsNone(TitleOf(BodyLines[i])))

\* The heading a line of the body is under: the title of the most recent
\* heading line before it, None when there is none.
HeadingAbove(i) ==
    LET hs == { j \in 1..(i - 1) :
                  Len(Strip(BodyLines[j])) > 0 /\ IsSome(TitleOf(BodyLines[j])) }
    IN IF hs = { } THEN None ELSE TitleOf(BodyLines[Max(hs)])

\* The content lines returned, each with the heading of its section, in
\* section order.
ReturnedContent ==
    Concat([k \in DOMAIN call.ret |->
              [n \in DOMAIN call.ret[k].lines |->
                 [heading |-> call.ret[k].heading, line |-> call.ret[k].lines[n]]]])

\* No returned content line is blank.
NoBlankContent ==
    \A k \in DOMAIN ReturnedContent : Len(Strip(ReturnedContent[k].line)) > 0

\* C18: extract_heading_sections_with_content partitions the body: no content
\* line is blank, and the content lines of all sections, in section order,
\* are the body's non-blank, non-heading lines in their order, each under the
\* most recent heading before it or under None before the first heading.
C18_SectionsPartitionBody ==
    Done("extract_heading_sections_with_content") =>
        /\ NoBlankContent
        /\ ReturnedContent =
              [k \in DOMAIN ContentAt |->
                 [heading |-> HeadingAbove(ContentAt[k]),
                  line |-> BodyLines[ContentAt[k]]]]

\* C18, amended: the same, the content lines being the body's lines without
\* their trailing whitespace.
C18_SectionsPartitionStrippedBody ==
    Done("extract_heading_sections_with_content") =>
        /\ NoBlankContent
        /\ ReturnedContent =
              [k \in DOMAIN ContentAt |->
                 [heading |-> HeadingAbove(ContentAt[k]),
                  line |-> RStrip(BodyLines[ContentAt[k]])]]

\* C18 witness: a body with content before the first heading, a heading, and
\* a content line with trailing whitespace under it was split into two
\* sections.
C18_Witness ==
    /\ Done("extract_heading_sections_with_content")
    /\ Len(call.ret) = 2
    /\ IsNone(call.ret[1].heading)
    /\ IsSome(call.ret[2].heading)
    /\ \E k \in DOMAIN ContentAt :
          /\ IsSome(HeadingAbove(ContentAt[k]))
          /\ RStrip(BodyLines[ContentAt[k]]) # BodyLines[ContentAt[k]]

\* ------------------------------------------------ extract_markdown_sections
\* The fence of a code block: three grave accents, each written by its code
\* point.
FENCE == << "U+0060", "U+0060", "U+0060" >>

\* FENCED_BLOCK_RE tried at position p of text:
\* a fence, a language tag [a-zA-Z0-9_\-]*, a newline, a lazy group of any
\* characters (re.DOTALL) and a fence.  The content runs to the first fence
\* after the opening line.
FENCED_BLOCK_RE(text, p) ==
    LET l  == RunLen(text, p + Len(FENCE), WordChars \cup { "-" })
        c  == p + Len(FENCE) + l + 1
        es == { e \in c..Len(text) : StartsWith(text, e, FENCE) }
    IN IF /\ StartsWith(text, p, FENCE)
          /\ StartsWith(text, c - 1, << "\n" >>)
          /\ es # { }
       THEN [len |-> Min(es) + Len(FENCE) - p, from |-> c, to |-> Min(es) - 1]
       ELSE [len |-> 0, from |-> 0, to |-> 0]

\* extract_code_blocks(text): the stripped contents, or None.
extract_code_blocks(text) ==
    LET at == Scan([p \in 1..Len(text) |-> FENCED_BLOCK_RE(text, p).len], 1)
    IN OrNone([i \in DOMAIN at |->
                 Strip(Slice(text, FENCED_BLOCK_RE(text, at[i]).from,
                             FENCED_BLOCK_RE(text, at[i]).to))])

\* LIST_RE tried at position p of text:
\*   ^[ \t]*([-*+]|\d+\.)\s+.+$   (re.MULTILINE)
\* The result holds the length of the match and the bounds of group 1, the
\* bullet or the number with its dot.
LIST_RE(text, p) ==
    LET a  == p + RunLen(text, p, { " ", "\t" })
        d  == RunLen(text, a, Digits)
        b  == IF a > Len(text) THEN 0
              ELSE IF text[a] \in { "-", "*", "+" } THEN 1
              ELSE IF d >= 1 /\ StartsWith(text, a + d, << "." >>) THEN d + 1
              ELSE 0
        e  == a + b
        w  == RunLen(text, e, SpaceChars)
        ks == { k \in 1..w : e + k <= Len(text) /\ text[e + k] # "\n" }
        g  == e + Max(ks)
    IN IF LineStart(text, p) /\ b > 0 /\ ks # { }
       THEN [len |-> g + RunLenNot(text, g, { "\n" }) - p,
             from |-> a, to |-> e - 1]
       ELSE [len |-> 0, from |-> 0, to |-> 0]

\* extract_lists(text): re.findall returns group 1 of every match, so the
\* list holds the bullets of the list lines; None when there is no match.
extract_lists(text) ==
    LET at == Scan([p \in 1..Len(text) |-> LIST_RE(text, p).len], 1)
    IN OrNone([i \in DOMAIN at |->
                 Strip(Slice(text, LIST_RE(text, at[i]).from,
                             LIST_RE(text, at[i]).to))])

\* extract_markdown_sections(text): always a dict of the three views.
extract_markdown_sections(text) ==
    Returned(Some([code_blocks |-> extract_code_blocks(text),
                   headings    |-> extract_heading_sections_with_content(text),
                   lists       |-> extract_lists(text)]))

\* Bodies of at most MaxLines lines: a commit, a status line, a heading, a
\* list line, a fenced block in two lines, prose and a blank line.
ExtractionTexts ==
    { TextOf(ls) : ls \in SeqsUpTo(
        { << "a", "b", "c", "d", "e", "f", "0", " ", "f", "i", "x", " ", "i", "t" >>, << "M", " ", "s", "r", "c", "/", "x", ".", "p", "y" >>, << "#", " ", "T" >>, << "-", " ", "i", "t", "e", "m" >>, << "U+0060", "U+0060", "U+0060", "p", "y" >>, << "x", "U+0060", "U+0060", "U+0060" >>, << "f", "i", "x", " ", "i", "t" >>, << >> }, MaxLines) }

ExtractMarkdownSections ==
    Return("extract_markdown_sections", extract_markdown_sections(call.arg))

SpecExtraction ==
    /\ \/ Pending("extract_commits", ExtractionTexts)
       \/ Pending("extract_files_modified", ExtractionTexts)
       \/ Pending("extract_markdown_sections", ExtractionTexts)
    /\ [][ExtractCommits \/ ExtractFilesModified \/ ExtractMarkdownSections]_vars

\* The body of the call holds no fenced block, no section and no list line.
NoSectionsFound ==
    /\ IsNone(extract_code_blocks(call.arg))
    /\ Len(extract_heading_sections_with_content(call.arg)) = 0
    /\ IsNone(extract_lists(call.arg))

\* C19: each of the three sub-extractions (commits, files modified, sections)
\* returns None when nothing is found in the body, never an empty list or a
\* map of empty values.
C19_NothingFoundIsNone ==
    /\ (Done("extract_commits") /\ Len(CommitMatches(call.arg, 1)) = 0)
          => (~call.ret.raised /\ IsNone(call.ret.value))
    /\ (Done("extract_files_modified") /\ (\A p \in 1..Len(call.arg) : FILE_PATH(call.arg, p).len = 0))
          => IsNone(call.ret.value)
    /\ (Done("extract_markdown_sections") /\ NoSectionsFound)
          => IsNone(call.ret.value)

\* --------------------------------------------------- tag rules (the title)
\* A pattern of RULES is \b, a sequence of pieces and \b; a piece is the set of
\* the strings it can match: one string for a literal, the empty string and
\* the others for an optional group, the characters for a class.
Opt(S) == { << >> } \cup S

\* RULES, in the order of the dict.
RULES ==
    << [tag |-> << "b", "u", "g" >>,
        patterns |-> << << { << "b", "u", "g" >> } >>, << { << "f", "i", "x" >> } >>, << { << "e", "r", "r", "o", "r" >> } >>,
                        << { << "i", "s", "s", "u", "e" >> } >>, << { << "c", "r", "a", "s", "h" >> } >>,
                        << { << "h", "o", "t", "f", "i", "x" >> } >> >>],
       [tag |-> << "s", "q", "l" >>,
        patterns |-> << << { << "s", "q", "l" >> } >>, << { << "t", "a", "b", "l", "e" >> } >>,
                        << { << "d", "a", "t", "a", "b", "a", "s", "e" >> } >>, << { << "d", "b" >> } >>,
                        << { << "q", "u", "e", "r", "y" >> } >> >>],
       [tag |-> << "u", "i" >>,
        patterns |-> << << { << "u", "i" >> } >>, << { << "u", "x" >> } >>, << { << "f", "r", "o", "n", "t", "e", "n", "d" >> } >>,
                        << { << "b", "u", "t", "t", "o", "n" >> } >>, << { << "l", "a", "y", "o", "u", "t" >> } >>,
                        << { << "d", "e", "s", "i", "g", "n" >> } >> >>],
       [tag |-> << "a", "p", "i" >>,
        patterns |-> << << { << "a", "p", "i" >> } >>,
                        << { << "e", "n", "d", "p", "o", "i", "n", "t" >> }, Opt({ << "s" >> }) >>,
                        << { << "r", "e", "s", "t" >> } >>, << { << "j", "s", "o", "n" >> } >> >>],
       [tag |-> << "s", "e", "c", "u", "r", "i", "t", "y" >>,
        patterns |-> << << { << "s", "e", "c", "u", "r", "i", "t", "y" >> } >>, << { << "x", "s", "s" >> } >>,
                        << { << "s", "q", "l" >> }, Opt({ << c >> : c \in SpaceChars \cup { "_", "-" } }), { << "i", "n", "j", "e", "c", "t", "i", "o", "n" >> } >>,
                        << { << "a", "u", "t", "h" >> }, Opt({ << "e", "n", "t", "i", "c", "a", "t", "i", "o", "n" >>, << "o", "r", "i", "z", "a", "t", "i", "o", "n" >> }) >>,
                        << { << "c", "s", "r", "f" >> } >> >>],
       [tag |-> << "p", "e", "r", "f", "o", "r", "m", "a", "n", "c", "e" >>,
        patterns |-> << << { << "p", "e", "r", "f", "o", "r", "m", "a", "n", "c", "e" >> } >>, << { << "s", "p", "e", "e", "d" >> } >>,
                        << { << "f", "a", "s", "t", "e", "r" >> } >>,
                        << { << "o", "p", "t", "i", "m", "i" >> }, { << "s" >>, << "z" >> },
                           Opt({ << "e" >>, << "i", "n", "g" >>, << "a", "t", "i", "o", "n" >> }) >>,
                        << { << "l", "a", "t", "e", "n", "c", "y" >> } >> >>] >>

\* The strings a sequence of pieces matches.
RECURSIVE Language(_)
Language(pieces) ==
    IF Len(pieces) = 0 THEN { << >> }
    ELSE { a \o b : a \in Head(pieces), b \in Language(Tail(pieces)) }

\* A search that drops the two \b of the pattern (a bug).
SearchAnywhere(pattern, title) ==
    \E p \in 1..Len(title) : \E word \in Language(pattern) :
        StartsWith(title, p, word)

\* re.search(pattern, title): the pattern matches somewhere, between two
\* word boundaries.
Search(pattern, title) ==
    \E p \in 1..Len(title) : \E word \in Language(pattern) :
        /\ WordBoundary(title, p)
        /\ StartsWith(title, p, word)
        /\ WordBoundary(title, p + Len(word))

\* The order of str on lower-case words: by the first character that differs.
RECURSIVE StrLeq(_, _)
StrLeq(a, b) ==
    LET LetterCode(c) == CHOOSE i \in DOMAIN LowerChars : LowerChars[i] = c IN
    IF Len(a) = 0 THEN TRUE
    ELSE IF Len(b) = 0 THEN FALSE
    ELSE IF a[1] = b[1] THEN StrLeq(Tail(a), Tail(b))
    ELSE LetterCode(a[1]) < LetterCode(b[1])

\* sorted(tags).
RECURSIVE Sorted(_)
Sorted(S) ==
    IF S = { } THEN << >>
    ELSE LET m == CHOOSE x \in S : \A y \in S : StrLeq(x, y)
         IN << m >> \o Sorted(S \ { m })

\* The tags of RULES one of whose patterns is found in title.
MatchingTags(title) ==
    { RULES[r].tag : r \in { k \in DOMAIN RULES :
                               \E i \in DOMAIN RULES[k].patterns :
                                   Search(RULES[k].patterns[i], title) } }

\* generate_tags_from_pr_title without the lower() of line 75.
generate_tags_without_lower(pr_title) ==
    IF IsNone(pr_title) \/ Len(Get(pr_title)) = 0 THEN << >>
    ELSE Sorted(MatchingTags(Get(pr_title)))

\* generate_tags_from_pr_title(pr_title) of src/tag_classifier.py.
generate_tags_from_pr_title(pr_title) ==
    IF IsNone(pr_title) \/ Len(Get(pr_title)) = 0 THEN << >>
    ELSE Sorted(MatchingTags(Lower(Get(pr_title))))

\* classify_tags(pr_title) of src/tag_classifier.py.
classify_tags(pr_title) == Sorted(Range(generate_tags_from_pr_title(pr_title)))

\* The titles: None, the empty string, and the strings of at most MaxTokens
\* pieces.
Titles ==
    { None }
    \cup { Some(Join(t, << >>)) : t \in SeqsUpTo(
             { << "F", "i", "x" >>, << "D", "B" >>, << "t", "a", "b", "l", "e" >>, << "V", "i", "e", "w" >>, << " " >>, << "_" >>, << "s", "q", "l" >>, << "I", "n", "j", "e", "c", "t", "i", "o", "n" >>, << "o", "p", "t", "i", "m", "i", "Z", "a", "t", "i", "o", "n" >> }, MaxTokens) }

GenerateTagsFromPrTitle ==
    Return("generate_tags_from_pr_title", generate_tags_from_pr_title(call.arg))

ClassifyTags == Return("classify_tags", classify_tags(call.arg))

SpecTags ==
    /\ \/ Pending("generate_tags_from_pr_title", Titles)
       \/ Pending("classify_tags", Titles)
    /\ [][GenerateTagsFromPrTitle \/ ClassifyTags]_vars

\* A tag classifier was called on a title.
Tagged == Done("generate_tags_from_pr_title") \/ Done("classify_tags")

\* The pattern matches the title without regard to case.
MatchesIgnoringCase(pattern, title) ==
    \E p \in 1..Len(title) : \E word \in Language(pattern) :
        /\ WordBoundary(title, p)
        /\ StartsWithCI(title, p, word)
        /\ WordBoundary(title, p + Len(word))

\* The tags of the vocabulary in ascending order.
AscendingTags == << << "a", "p", "i" >>, << "b", "u", "g" >>, << "p", "e", "r", "f", "o", "r", "m", "a", "n", "c", "e" >>, << "s", "e", "c", "u", "r", "i", "t", "y" >>, << "s", "q", "l" >>, << "u", "i" >> >>
Rank(tag) == CHOOSE i \in DOMAIN AscendingTags : AscendingTags[i] = tag

\* C20: generate_tags_from_pr_title(title) returns exactly the tags of RULES
\* that have a pattern matching the title case-insensitively, as an ascending
\* list without duplicates, and [] for an empty or None title;
\* classify_tags(title) returns the same list.
C20_TagsAreMatchingRules ==
    Tagged =>
        LET title == IF IsNone(call.arg) THEN << >> ELSE Get(call.arg)
            expected ==
                { RULES[k].tag : k \in { r \in DOMAIN RULES :
                    \E i \in DOMAIN RULES[r].patterns :
                        MatchesIgnoringCase(RULES[r].patterns[i], title) } }
        IN /\ Range(call.ret) = expected
           /\ \A i, j \in DOMAIN call.ret :
                 i < j => Rank(call.ret[i]) < Rank(call.ret[j])
           /\ Len(title) = 0 => call.ret = << >>
           /\ Done("classify_tags") =>
                 call.ret = generate_tags_from_pr_title(call.arg)

\* C20 witness: a title in mixed case got two tags, one of them from a
\* pattern with an optional part.
C20_Witness ==
    /\ Tagged
    /\ Len(call.ret) >= 2
    /\ << "p", "e", "r", "f", "o", "r", "m", "a", "n", "c", "e" >> \in Range(call.ret)
    /\ Lower(Get(call.arg)) # Get(call.arg)

\* The letters and digits of a lower-cased title.
AlphaNumeric ==
    { LowerChars[i] : i \in DOMAIN LowerChars } \cup Digits

\* The occurrence of word at position p of title stands by itself: no letter
\* or digit comes right before it or right after it.
WholeWordAt(title, p, word) ==
    /\ StartsWith(title, p, word)
    /\ p > 1 => title[p - 1] \notin AlphaNumeric
    /\ p + Len(word) <= Len(title) => title[p + Len(word)] \notin AlphaNumeric

\* C21: a tag is assigned only when one of the keywords of its rule occurs in
\* the lower-cased title as a whole word; a keyword that occurs only inside a
\* longer alphanumeric word ('table' in 'tableView') assigns nothing.
C21_WholeWordsOnly ==
    (Tagged /\ IsSome(call.arg)) =>
        \A r \in DOMAIN RULES :
            (\E i \in DOMAIN call.ret : call.ret[i] = RULES[r].tag) =>
                \E k \in DOMAIN RULES[r].patterns :
                    \E word \in Language(RULES[r].patterns[k]) :
                        \E p \in 1..Len(Get(call.arg)) :
                            WholeWordAt(Lower(Get(call.arg)), p, word)

\* C21 witness: the call on 'tableView' returned no tag, and the call on
\* 'table View' would have: the keyword is there, inside a longer word.
C21_Witness ==
    /\ Tagged
    /\ call.arg = Some(<< "t", "a", "b", "l", "e", "V", "i", "e", "w" >>)
    /\ WholeWordAt(<< "t", "a", "b", "l", "e", " ", "v", "i", "e", "w" >>, 1, << "t", "a", "b", "l", "e" >>)
    /\ ~WholeWordAt(Lower(Get(call.arg)), 1, << "t", "a", "b", "l", "e" >>)
    /\ call.ret = << >>

\* ------------------------------------------------ EmailMessage.full_text
MaxRenderings == 2

\* str(n) of a natural number.
RECURSIVE Str(_)
Str(n) ==
    LET DigitSeq == << "0", "1", "2", "3", "4", "5", "6", "7", "8", "9" >> IN
    IF n < 10 THEN << DigitSeq[n + 1] >>
    ELSE Str(n \div 10) \o << DigitSeq[(n % 10) + 1] >>

\* list(set(xs)) of small integers: CPython keeps an integer under 8 in the
\* slot of its own value of an 8-slot table, so at most four distinct values
\* come back in ascending order, in whatever order the list held them.
RECURSIVE Ascending(_)
Ascending(S) ==
    IF S = { } THEN << >>
    ELSE LET m == CHOOSE x \in S : \A y \in S : x <= y
         IN << m >> \o Ascending(S \ { m })

\* Lines 159-199: the list parts of full_text. A field is an optional list;
\* markdown is an optional list of (section, items) pairs in the order of
\* the dict; each block is appended when its field is truthy, the markdown
\* block when one of its sections has items, the body always.
Parts(self) ==
    LET Truthy(v) == IsSome(v) /\ Len(Get(v)) > 0
        Labelled(label, v, sep) ==
            IF Truthy(v) THEN << label \o Join(Get(v), sep) >> ELSE << >>
        Strs(v) == IF IsSome(v) THEN Some([i \in DOMAIN Get(v) |-> Str(Get(v)[i])]) ELSE None
        COMMA_SPACE == << ",", " " >>
        NEWLINE == << "\n" >>
        md_parts ==
            IF Truthy(self.markdown)
            THEN Concat([k \in DOMAIN Get(self.markdown) |->
                    LET section == Get(self.markdown)[k].section
                        items == Get(self.markdown)[k].items
                    IN IF Truthy(items)
                       THEN << << "#", "#", " " >> \o section >>
                            \o [i \in DOMAIN Get(items) |-> << "-", " " >> \o Get(items)[i]]
                       ELSE << >>])
            ELSE << >>
    IN Labelled(<< "T", "a", "g", "s", ":", " " >>, self.tags, COMMA_SPACE)
       \o (IF Truthy(self.pr_title) THEN << << "T", "i", "t", "l", "e", ":", " " >> \o Get(self.pr_title) >> ELSE << >>)
       \o Labelled(<< "P", "R", " ", "N", "u", "m", "b", "e", "r", "s", ":", " " >>,
                   IF Truthy(self.pr_numbers)
                   THEN Strs(Some(Ascending(Range(Get(self.pr_numbers)))))
                   ELSE None,
                   COMMA_SPACE)
       \o Labelled(<< "R", "e", "p", "o", "s", ":", " " >>, self.repos, COMMA_SPACE)
       \o Labelled(<< "T", "i", "c", "k", "e", "t", "s", ":", " " >>, self.tickets, COMMA_SPACE)
       \o (IF Len(md_parts) > 0
           THEN << << "M", "a", "r", "k", "d", "o", "w", "n", " ", "S", "e", "c", "t", "i", "o", "n", "s", ":", "\n" >> \o Join(md_parts, NEWLINE) >>
           ELSE << >>)
       \o Labelled(<< >>,
                   IF IsSome(self.commits)
                   THEN Some([i \in DOMAIN Get(self.commits) |->
                                Get(self.commits)[i].short \o COMMA
                                \o Get(self.commits)[i].message])
                   ELSE None,
                   NEWLINE)
       \o Labelled(<< >>, self.files_modified, NEWLINE)
       \o Labelled(<< "L", "i", "n", "k", "e", "d", " ", "P", "R", "s", ":", " " >>, Strs(self.linked_prs), COMMA_SPACE)
       \o Labelled(<< "L", "i", "n", "k", "e", "d", " ", "T", "i", "c", "k", "e", "t", "s", ":", " " >>, self.linked_tickets, COMMA_SPACE)
       \o Labelled(<< "C", "o", "n", "t", "r", "i", "b", "u", "t", "o", "r", "s", ":", " " >>, self.contributors, COMMA_SPACE)
       \o << self.body >>

\* The parts joined by single newlines (a bug).
full_text_joined_by_newline(self) == Join(Parts(self), << "\n" >>)

\* Line 201: "\n\n".join(parts).
full_text(self) == Join(Parts(self), BLANK_LINE)

\* The records full_text is called on: every field None or a value, the
\* PR numbers with a duplicate, linked_prs also [], markdown also with a
\* section without items, the body also empty.
Records ==
    LET Opt1(v) == { None, Some(v) } IN
    [ tags           : Opt1(<< << "u", "i" >>, << "s", "q", "l" >> >>),
      pr_title       : Opt1(<< "F", "i", "x" >>),
      pr_numbers     : Opt1(<< 2, 1, 2 >>),
      repos          : Opt1(<< << "o", "/", "r" >> >>),
      tickets        : Opt1(<< << "A", "B", "-", "1" >> >>),
      markdown       : { None,
                         Some(<< [section |-> << "N", "o", "t", "e", "s" >>, items |-> Some(<< << "n" >>, << "m" >> >>)],
                                 [section |-> << "T", "e", "s", "t", "s" >>, items |-> None] >>),
                         Some(<< [section |-> << "N", "o", "t", "e", "s" >>, items |-> Some(<< >>)] >>) },
      commits        : Opt1(<< [sha |-> << "a", "b", "c", "d", "e", "f", "1", "2" >>, short |-> << "a", "b", "c", "d", "e", "f", "1" >>, message |-> << "g", "o" >>],
                               [sha |-> << "1", "2", "3", "4", "5", "6", "7" >>, short |-> << "1", "2", "3", "4", "5", "6", "7" >>, message |-> << >>] >>),
      files_modified : Opt1(<< << "a", ".", "p", "y" >>, << "b", ".", "p", "y" >> >>),
      linked_prs     : { None, Some(<< >>), Some(<< 7, 12 >>) },
      linked_tickets : Opt1(<< << "C", "D", "-", "2" >> >>),
      contributors   : Opt1(<< << "@", "b", "o", "b" >> >>),
      body           : { << >>, << "B" >> } ]

\* One more rendering of the record of the call.
FullText ==
    /\ call.fn = "full_text"
    /\ Len(call.ret) < MaxRenderings
    /\ call' = [call EXCEPT !.ret = Append(@, full_text(call.arg)), !.done = TRUE]
    /\ UNCHANGED << emails, dicts, lists, result, last >>

\* One record rendered up to MaxRenderings times.
SpecFullText == Pending("full_text", Records) /\ [][FullText]_vars

\* The blocks of a rendering, in their fixed order.
BlockOrder ==
    << "tags", "pr_title", "pr_numbers", "repos", "tickets", "markdown",
       "commits", "files_modified", "linked_prs", "linked_tickets",
       "contributors" >>

\* The block of field f of record r, the PR numbers written in the order prs.
BlockOf(r, f, prs) ==
    LET Numbers(l) == Join([i \in DOMAIN l |-> Str(l[i])], << ",", " " >>)
        Section(s) ==
            IF IsSome(s.items) /\ Len(Get(s.items)) > 0
            THEN << << "#", "#", " " >> \o s.section >>
                 \o [i \in DOMAIN Get(s.items) |-> << "-", " " >> \o Get(s.items)[i]]
            ELSE << >>
    IN CASE f = "tags" -> << "T", "a", "g", "s", ":", " " >> \o Join(Get(r.tags), << ",", " " >>)
         [] f = "pr_title" -> << "T", "i", "t", "l", "e", ":", " " >> \o Get(r.pr_title)
         [] f = "pr_numbers" -> << "P", "R", " ", "N", "u", "m", "b", "e", "r", "s", ":", " " >> \o Numbers(prs)
         [] f = "repos" -> << "R", "e", "p", "o", "s", ":", " " >> \o Join(Get(r.repos), << ",", " " >>)
         [] f = "tickets" -> << "T", "i", "c", "k", "e", "t", "s", ":", " " >> \o Join(Get(r.tickets), << ",", " " >>)
         [] f = "markdown" ->
                << "M", "a", "r", "k", "d", "o", "w", "n", " ", "S", "e", "c", "t", "i", "o", "n", "s", ":", "\n" >>
                \o Join(Concat([k \in DOMAIN Get(r.markdown) |-> Section(Get(r.markdown)[k])]),
                        << "\n" >>)
         [] f = "commits" ->
                Join([i \in DOMAIN Get(r.commits) |->
                        Get(r.commits)[i].short \o << "," >> \o Get(r.commits)[i].message],
                     << "\n" >>)
         [] f = "files_modified" -> Join(Get(r.files_modified), << "\n" >>)
         [] f = "linked_prs" -> << "L", "i", "n", "k", "e", "d", " ", "P", "R", "s", ":", " " >> \o Numbers(Get(r.linked_prs))
         [] f = "linked_tickets" -> << "L", "i", "n", "k", "e", "d", " ", "T", "i", "c", "k", "e", "t", "s", ":", " " >> \o Join(Get(r.linked_tickets), << ",", " " >>)
         [] f = "contributors" -> << "C", "o", "n", "t", "r", "i", "b", "u", "t", "o", "r", "s", ":", " " >> \o Join(Get(r.contributors), << ",", " " >>)

\* text is the blocks of the fields of emitted, in the fixed order, and then
\* the body, with a blank line between two of them.
RendersBlocks(r, emitted, text) ==
    \E prs \in (IF IsSome(r.pr_numbers) THEN ListsOfSet(Range(Get(r.pr_numbers)))
                ELSE { << >> }) :
        text = Join([i \in 1..Cardinality(emitted) + 1 |->
                       IF i > Cardinality(emitted) THEN r.body
                       ELSE BlockOf(r, SelectSeq(BlockOrder, LAMBDA f : f \in emitted)[i], prs)],
                    << "\n", "\n" >>)

\* C22: the last rendering of a record is the blocks of some of its non-null
\* fields in the order Tags, Title, PR Numbers (without duplicates), Repos,
\* Tickets, Markdown Sections (a heading line and then the bulleted items of
\* each section), the commit lines 'short,message', the file list, Linked
\* PRs, Linked Tickets, Contributors, and then the raw body, joined by blank
\* lines; and every rendering of the same record is that same text.
C22_FixedOrderOfBlocks ==
    Done("full_text") =>
        /\ \E emitted \in SUBSET { f \in Range(BlockOrder) : IsSome(call.arg[f]) } :
              RendersBlocks(call.arg, emitted, call.ret[Len(call.ret)])
        /\ \A k \in DOMAIN call.ret : call.ret[k] = call.ret[Len(call.ret)]

\* C22 witness: a record with every field set, linked_prs to the empty list,
\* was rendered twice; the text starts with the tags and has no Linked PRs
\* block.
C22_Witness ==
    /\ Done("full_text")
    /\ Len(call.ret) = 2
    /\ \A f \in Range(BlockOrder) : IsSome(call.arg[f])
    /\ call.arg.linked_prs = Some(<< >>)
    /\ Len(call.arg.body) > 0
    /\ StartsWith(call.ret[2], 1, << "T", "a", "g", "s", ":", " ", "u", "i", ",", " ", "s", "q", "l", "\n", "\n", "T", "i", "t", "l", "e", ":", " ", "F", "i", "x", "\n", "\n", "P", "R", " ", "N", "u", "m", "b", "e", "r", "s", ":", " ", "1", ",", " ", "2", "\n", "\n", "R", "e", "p", "o", "s", ":", " " >>)
    /\ ~RendersBlocks(call.arg, Range(BlockOrder), call.ret[2])
    /\ RendersBlocks(call.arg, Range(BlockOrder) \ { "linked_prs" }, call.ret[2])

\* ------------------------------------------------ classify_tags_from_files
\* FILE_RULES of src/tags_from_file.py, in the order of the dict.
FILE_RULES ==
    << [tag |-> << "u", "i" >>,
        patterns |-> { << "/", "u", "i", "/" >>, << "/", "f", "r", "o", "n", "t", "e", "n", "d", "/" >>, << "/", "c", "o", "m", "p", "o", "n", "e", "n", "t", "s", "/" >>, << "/", "v", "i", "e", "w", "s", "/" >>,
                       << "/", "t", "e", "m", "p", "l", "a", "t", "e", "s", "/" >>, << ".", "c", "s", "s" >>, << ".", "s", "c", "s", "s" >>, << ".", "s", "a", "s", "s" >>, << ".", "l", "e", "s", "s" >>,
                       << ".", "j", "s", "x" >>, << ".", "t", "s", "x" >>, << ".", "v", "u", "e" >>, << ".", "h", "t", "m", "l" >>, << ".", "p", "h", "t", "m", "l" >> }],
       [tag |-> << "s", "q", "l" >>,
        patterns |-> { << "/", "m", "i", "g", "r", "a", "t", "i", "o", "n", "s", "/" >>, << "/", "m", "i", "g", "r", "a", "t", "i", "o", "n", "/" >>, << "/", "d", "b", "/" >>, << "/", "d", "a", "t", "a", "b", "a", "s", "e", "/" >>,
                       << ".", "s", "q", "l" >> }],
       [tag |-> << "a", "p", "i" >>,
        patterns |-> { << "/", "a", "p", "i", "/" >>, << "/", "r", "o", "u", "t", "e", "s", "/" >>, << "/", "c", "o", "n", "t", "r", "o", "l", "l", "e", "r", "s", "/" >>, << "/", "e", "n", "d", "p", "o", "i", "n", "t", "s", "/" >>,
                       << "r", "o", "u", "t", "e", "r" >>, << "c", "o", "n", "t", "r", "o", "l", "l", "e", "r" >> }],
       [tag |-> << "s", "e", "c", "u", "r", "i", "t", "y" >>,
        patterns |-> { << "/", "a", "u", "t", "h", "/" >>, << "/", "a", "u", "t", "h", "e", "n", "t", "i", "c", "a", "t", "i", "o", "n", "/" >>, << "/", "a", "u", "t", "h", "o", "r", "i", "z", "a", "t", "i", "o", "n", "/" >>,
                       << "j", "w", "t" >>, << "o", "a", "u", "t", "h" >>, << "/", "s", "e", "c", "u", "r", "i", "t", "y", "/" >>, << "p", "e", "r", "m", "i", "s", "s", "i", "o", "n", "s" >> }],
       [tag |-> << "p", "e", "r", "f", "o", "r", "m", "a", "n", "c", "e" >>,
        patterns |-> { << "c", "a", "c", "h", "e" >>, << "c", "a", "c", "h", "i", "n", "g" >>, << "/", "u", "t", "i", "l", "s", "/", "p", "e", "r", "f" >>, << "/", "p", "e", "r", "f", "o", "r", "m", "a", "n", "c", "e", "/" >>,
                       << "i", "n", "d", "e", "x", "i", "n", "g" >>, << "b", "a", "t", "c", "h" >>, << "a", "s", "y", "n", "c" >>, << "c", "o", "n", "c", "u", "r", "r", "e", "n", "c", "y" >> }],
       [tag |-> << "b", "a", "c", "k", "e", "n", "d" >>,
        patterns |-> { << "/", "s", "e", "r", "v", "i", "c", "e", "s", "/" >>, << "/", "m", "o", "d", "e", "l", "s", "/" >>, << "/", "h", "a", "n", "d", "l", "e", "r", "s", "/" >>, << "/", "c", "o", "r", "e", "/" >>,
                       << ".", "g", "o" >>, << ".", "r", "b" >>, << ".", "p", "y" >>, << ".", "j", "a", "v", "a" >>, << ".", "t", "s" >>, << ".", "p", "h", "p" >> }] >>

\* The tags of FILE_RULES one of whose patterns is a substring of the
\* lower-cased text f.
FileTags(f) ==
    { FILE_RULES[r].tag : r \in { k \in DOMAIN FILE_RULES :
                                    \E p \in FILE_RULES[k].patterns :
                                        Contains(Lower(f), p) } }

\* classify_tags_from_files(files): the sorted tags of the files of the list.
classify_tags_from_files(files) == Sorted(UNION { FileTags(f) : f \in files })

\* --------------------------- EmailExtractor.extract_emails_from_mbox, a batch
MaxMessages == 2

\* Lines 42-98, one message of the mailbox: the outcomes of the loop body, an
\* exception of extract_commits or a record for each order list(set()) gives
\* the PR numbers.  Nothing in the loop catches an exception.  Each value of
\* the loop body is bound once, in the order the body computes it.
ProcessMessage(msg) ==
    UNION { UNION { UNION { UNION {
        IF commits.raised THEN { Raises }
        ELSE { Returned([subject        |-> msg.subject,
                         message_id     |-> msg.message_id,
                         pr_numbers     |-> convert_pr_numbers(OrNone(l)),
                         repos          |-> meta.repos,
                         tickets        |-> meta.tickets,
                         pr_title       |-> IF IsSome(meta.pr_title)
                                               /\ Len(Strip(Get(meta.pr_title))) = 0
                                            THEN None ELSE meta.pr_title,
                         contributors   |-> meta.contributors,
                         tags           |-> OrNone(Sorted(Range(tags_from_title)
                                                          \cup Range(tags_from_files)
                                                          \cup Range(tags_from_section))),
                         body           |-> body,
                         markdown       |-> markdown_sections,
                         commits        |-> commits.value,
                         files_modified |-> empty_list_to_none(files_modified)]) :
                  l \in ListsOfSet(Range(IntsOf(
                           MergedPrList(meta.pr_numbers, pr_from_msgid)))) } :
            tags_from_section \in { classify_tags(Some(section_text)) },
            commits \in { extract_commits(body) } } :
          tags_from_title \in { classify_tags(meta.pr_title) },
          tags_from_files \in { classify_tags_from_files(Get(files_modified)) },
          section_text \in { Join([i \in DOMAIN sections |->
                                     Join(sections[i].lines, COMMA)], COMMA) } } :
        pr_from_msgid \in { extract_pr_from_message_id(msg.message_id) },
        files_modified \in { extract_files_modified(body).value },
        markdown_sections \in { extract_markdown_sections(body).value },
        sections \in { extract_heading_sections_with_content(body) } } :
      body \in { extract_body(msg.part) },
      meta \in { extract_metadata_from_subject(msg.subject) } }

\* The mailboxes: at most MaxMessages messages; one body is a status line with
\* a /ui/ directory, one a commit line of a SHA alone, one a commit line with
\* a message, one a status line with a /views/ directory, one a status line of
\* a .css file, one a heading and a line of prose, one holds an invalid byte.
Mailboxes ==
    LET Msg(subject, message_id, body) ==
            [subject |-> subject, message_id |-> message_id,
             part |-> Leaf("text/plain", body)]
    IN SeqsUpTo({ Msg(<< "F", "i", "x", " ", "D", "B" >>, << >>, << "M", " ", "s", "r", "c", "/", "u", "i", "/", "a", ".", "t", "x", "t" >>),
                  Msg(<< "P", "R", " ", "#", "1" >>, << >>, << "a", "b", "c", "d", "e", "f", "0" >>),
                  Msg(<< "R", "e", ":", " ", "[", "o", "/", "r", "]", " ", "S", "p", "e", "e", "d", " ", "(", "#", "7", ")" >>, << "<", "r", "/", "p", "u", "l", "l", "/", "1", "2", "/", "c", "@", "x", ">" >>, << "a", "b", "c", "d", "e", "f", "0", " ", "f", "i", "x", " ", "i", "t" >>),
                  Msg(<< "D", "o", "c", "s" >>, << >>, << "M", " ", "s", "r", "c", "/", "v", "i", "e", "w", "s", "/", "x", ".", "t", "x", "t" >>),
                  Msg(<< >>, << >>, << "A", " ", "a", ".", "c", "s", "s" >>),
                  Msg(<< "P", "R", " ", "#", "7" >>, << "<", "r", "/", "p", "u", "l", "l", "/", "7", "/", "c", "@", "x", ">" >>, << "#", " ", "N", "o", "t", "e", "s", "\n", "s", "q", "l", " ", "q", "u", "e", "r", "y" >>),
                  Msg(<< "x" >>, << >>, << "q", "0xFF" >>) },
                MaxMessages)

\* Lines 41-100, extract_emails_from_mbox on a mailbox, one turn of the loop
\* per step: the outcome of the next message is added to those before it, and
\* the function is left when the body raised and when the mailbox is at its
\* end.  call.ret is the list of the outcomes so far: the records of results
\* and, last, the exception that ended the call.
ExtractEmailsFromMbox ==
    /\ call.fn = "EmailExtractor.extract_emails_from_mbox"
    /\ ~call.done
    /\ IF Len(call.arg) = 0
       THEN call' = [call EXCEPT !.done = TRUE]
       ELSE \E o \in ProcessMessage(call.arg[Len(call.ret) + 1]) :
               call' = [call EXCEPT
                          !.ret = Append(@, o),
                          !.done = o.raised \/ Len(call.ret) + 1 = Len(call.arg)]
    /\ UNCHANGED << emails, dicts, lists, result, last >>

SpecBatch ==
    /\ Pending("EmailExtractor.extract_emails_from_mbox", Mailboxes)
    /\ [][ExtractEmailsFromMbox]_vars

\* The batch call is over.
BatchDone == Done("EmailExtractor.extract_emails_from_mbox")

\* The messages of the mailbox whose extraction does not fail.
Extractable == SelectSeq(call.arg, LAMBDA msg : Raises \notin ProcessMessage(msg))

\* C23: when the batch call is over it has returned, and what it returned is
\* one record for every message whose extraction does not fail, in the order
\* of the mailbox: a message whose extraction fails takes no other record
\* with it.
C23_FailureIsNotFatal ==
    BatchDone =>
        /\ \A i \in DOMAIN call.ret : ~call.ret[i].raised
        /\ Len(call.ret) = Len(Extractable)
        /\ \A i \in DOMAIN call.ret : call.ret[i] \in ProcessMessage(Extractable[i])

\* The commits a body holds when each of its lines is read by itself: for a
\* line that starts, after blanks and tabs, with a hexadecimal token of 7 to
\* 40 characters, the token and the stripped rest of the line.
CommitsOfLines(text) ==
    LET ls   == Split(text, "\n")
        hits == SelectSeq([i \in DOMAIN ls |-> i],
                          LAMBDA i : IsSome(COMMIT_SIMPLE(ls[i], 1)))
    IN [k \in DOMAIN hits |->
          LET line == ls[hits[k]]
              sha  == Get(COMMIT_SIMPLE(line, 1)).sha
              from == RunLen(line, 1, { " ", "\t" }) + Len(sha) + 1
          IN [sha |-> sha, message |-> Strip(Slice(line, from, Len(line)))]]

\* C24: extract_commits does not raise and returns, in the order of the
\* body, exactly one CommitInfo for every line that starts (after blanks and
\* tabs) with a hexadecimal token of 7 to 40 characters; its message is the
\* rest of that line, the empty string when the line holds the SHA alone, as
\* the last line of the body or before another line.
C24_OneCommitPerShaLine ==
    Done("extract_commits") =>
        /\ ~call.ret.raised
        /\ LET expected == CommitsOfLines(call.arg)
               commits  == IF IsNone(call.ret.value) THEN << >>
                           ELSE Get(call.ret.value)
           IN /\ Len(commits) = Len(expected)
              /\ \A i \in DOMAIN commits :
                    /\ commits[i].sha = expected[i].sha
                    /\ commits[i].message = expected[i].message

\* The new record of the last call as the constructor built it, before the
\* fold touched it: the inputs differ in their subjects.
BuiltRecord ==
    LET kw == CHOOSE k \in Inputs :
                 /\ k.subject = emails[last.self].subject
                 /\ k.pr_numbers = emails[last.self].pr_numbers
    IN View(EmailMessage([emails |-> << >>, dicts |-> << >>, lists |-> << >>], kw), 1)

\* The last call appended a record of two or more PR numbers, none of them
\* held by a canonical record, to a non-empty list.
AppendedUnknownPrs ==
    /\ Called
    /\ Cardinality(PrSet(emails[last.self])) >= 2
    /\ Len(last.pre_result) > 0
    /\ \A i \in DOMAIN last.pre_result :
          PrSet(last.pre_views[i]) \cap PrSet(emails[last.self]) = { }

\* C25: a record of two or more PR numbers, none of them held by a canonical
\* record, appended to a non-empty list is in the list exactly once after the
\* call, and its body and its section items are what the constructor built:
\* it is never merged into itself.
C25_NewRecordNotMergedIntoItself ==
    AppendedUnknownPrs =>
        /\ Cardinality({ i \in DOMAIN result : result[i] = last.self }) = 1
        /\ NewRecord.body = BuiltRecord.body
        /\ NewRecord.markdown = BuiltRecord.markdown

\* The items of a key as a list, None counting as the empty list.
ItemList(v, key) == IF IsNone(Items(v, key)) THEN << >> ELSE Get(Items(v, key))

\* C26: a merge loses no section content: for every key of the section map
\* of the canonical record the key is still there after the merge and the
\* items it held are a prefix of the items it holds, whatever the new record
\* holds under the key (items, an empty list, None, or no key at all).
C26_SectionItemsKept ==
    \A k \in MergeEvents :
        LET ev == last.events[k] IN
        \A key \in Keys :
            HasKey(ev.pre, key) =>
                /\ HasKey(ev.post, key)
                /\ Len(ItemList(ev.pre, key)) <= Len(ItemList(ev.post, key))
                /\ SubSeq(ItemList(ev.post, key), 1, Len(ItemList(ev.pre, key)))
                      = ItemList(ev.pre, key)

\* The canonical records the last call merged the new record into.
MergeTargets == { last.events[k].target : k \in MergeEvents }

\* C27: canonical records share no mutable state: every record that was
\* canonical before the last call and that the call did not merge into has
\* after the call every field it had before it, the section map and its item
\* lists included.
C27_OtherRecordsUnchanged ==
    Called =>
        \A i \in DOMAIN last.pre_result :
            last.pre_result[i] \notin MergeTargets =>
                NowView(i) = last.pre_views[i]

\* ------------------------------------------ runs of append_by_pr, lines 95-110
\* Number of records of a run.
MaxRunLength == 2

\* Two runs fold the same sequence of records, one after the other in one
\* process; each call builds its record anew.  A run either passes its own
\* accumulator (a new [] to its first call, the returned list to the next) or
\* omits the argument in every call: `result` is then the list object of the
\* default `result=[]`, made once when the method is defined and not again.
\* call.ret collects, at the end of each run, the canonical list it returned.
FoldRun ==
    /\ call.fn = "append_by_pr"
    /\ ~call.done
    /\ LET records == call.arg.records
           n    == Len(emails)
           acc  == IF call.arg.passes_result /\ n % Len(records) = 0
                   THEN << >> ELSE result
           h1   == EmailMessage(Heap, records[(n % Len(records)) + 1])
           s    == Len(h1.emails)
           out  == append_by_pr(h1, acc, s)
       IN /\ emails' = out.h.emails
          /\ dicts' = out.h.dicts
          /\ lists' = out.h.lists
          /\ result' = out.res
          /\ last' = [self |-> s,
                      pre_result |-> acc,
                      pre_views |-> [i \in DOMAIN acc |-> View(Heap, acc[i])],
                      events |-> out.events]
          /\ call' = [call EXCEPT
                        !.ret = IF (n + 1) % Len(records) = 0
                                THEN Append(@, [i \in DOMAIN out.res |->
                                                  View(out.h, out.res[i])])
                                ELSE @,
                        !.done = (n + 1 = 2 * Len(records))]

SpecRuns ==
    /\ Pending("append_by_pr",
               [records : SeqsUpTo(Inputs, MaxRunLength) \ { << >> },
                passes_result : BOOLEAN])
    /\ [][FoldRun]_vars

\* C28: the two runs of the same sequence of records end with equal canonical
\* lists, when each run passes its own accumulator and when the runs omit the
\* argument.
C28_RunsAreIndependent ==
    Done("append_by_pr") => call.ret[1] = call.ret[2]

\* -------------------------------------- folds of one input in two orders
\* Number of records of an input.
MaxArrivals == 3

\* Records of exactly one PR number each, that differ in what they pass for
\* their list fields: values for all, values for some and nothing for the
\* others, empty lists and values.
OnePrRecords ==
    LET Kinds == << << "a", "b" >>, << "b", "unset" >>, << "empty", "a" >> >> IN
    [i \in 1..(Len(Kinds) * MaxPR) |->
        [FieldEmail(Kinds[((i - 1) % Len(Kinds)) + 1][1],
                    Kinds[((i - 1) % Len(Kinds)) + 1][2])
            EXCEPT !.pr_numbers = Some(<< ((i - 1) \div Len(Kinds)) + 1 >>)]]

\* The inputs: the records of an input (indices of OnePrRecords, in ascending
\* order) and the order in which the second fold takes them.
Arrivals ==
    UNION { { [records |-> r, order |-> o] :
                r \in { s \in [1..k -> DOMAIN OnePrRecords] :
                          \A i \in 1..(k - 1) : s[i] <= s[i + 1] },
                o \in ListsOfSet(1..k) } : k \in 1..MaxArrivals }

\* One input is folded twice, each fold with an accumulator of its own (a new
\* [] and then the list returned): first in the order of the input, then in
\* the other order; each call builds its record anew.  call.ret collects the
\* canonical record each call ended in: the record it was merged into, or
\* itself.
FoldInOrder ==
    /\ call.fn = "append_by_pr in two orders"
    /\ ~call.done
    /\ LET k    == Len(call.arg.records)
           n    == Len(emails)
           at   == IF n < k THEN n + 1 ELSE call.arg.order[n - k + 1]
           acc  == IF n % k = 0 THEN << >> ELSE result
           h1   == EmailMessage(Heap, OnePrRecords[call.arg.records[at]])
           s    == Len(h1.emails)
           out  == append_by_pr(h1, acc, s)
       IN /\ emails' = out.h.emails
          /\ dicts' = out.h.dicts
          /\ lists' = out.h.lists
          /\ result' = out.res
          /\ last' = [self |-> s,
                      pre_result |-> acc,
                      pre_views |-> [i \in DOMAIN acc |-> View(Heap, acc[i])],
                      events |-> out.events]
          /\ call' = [call EXCEPT !.ret = Append(@, out.events[1].target),
                                  !.done = (n + 1 = 2 * k)]

SpecOrders ==
    /\ Pending("append_by_pr in two orders", Arrivals)
    /\ [][FoldInOrder]_vars

\* Both folds of the input are over.
FoldedTwice == Done("append_by_pr in two orders")

\* What a fold ended with: per canonical record, the records of the input
\* that ended in it, its PR numbers and its list fields as sets.  The fold
\* made the calls first + 1 .. first + k, call j on the record order[j] of the
\* input.
Grouping(first, order) ==
    LET k == Len(call.arg.records) IN
    { [members |-> { order[j] : j \in { i \in 1..k : call.ret[first + i] = t } },
       prs     |-> PrSet(emails[t]),
       lf      |-> [f \in ListFields |-> SetOf(emails[t].lf[f])]] :
         t \in { call.ret[first + j] : j \in 1..k } }

\* C29: for an input of records of exactly one PR number each, the grouping
\* of the records into canonical records and every list field of every
\* canonical record, as a set, are the same whatever the arrival order.
C29_OrderIndependent ==
    FoldedTwice =>
        Grouping(0, [j \in DOMAIN call.arg.order |-> j])
            = Grouping(Len(call.arg.records), call.arg.order)

\* C29 witness: three records, two of one PR number and with different
\* files, were folded in the order of the input and in the reverse order;
\* the two records ended in one canonical record that holds both files.
C29_Witness ==
    /\ FoldedTwice
    /\ Len(call.arg.records) = 3
    /\ call.arg.order = << 3, 2, 1 >>
    /\ \E g \in Grouping(3, call.arg.order) :
          /\ Cardinality(g.members) = 2
          /\ g.lf["files_modified"] = { "a.py", "b.py" }
    /\ Cardinality(Grouping(3, call.arg.order)) = 2

\* The tags of a built record, as a set.
TagsOf(record) == IF IsNone(record.tags) THEN { } ELSE Range(Get(record.tags))

\* C30: every record the batch call built carries, for every modified-file
\* path of a status line of its body, every tag of FILE_RULES that has a
\* pattern that is a substring of the lower-cased path (so the tag of a
\* directory marker as '/ui/', '/api/' or '/views/'), together with the tags
\* of its title and of the content of its sections.
C30_FileTagsOfPaths ==
    \A i \in DOMAIN call.ret :
        (call.fn = "EmailExtractor.extract_emails_from_mbox" /\ ~call.ret[i].raised) =>
            LET record   == call.ret[i].value
                sections == extract_heading_sections_with_content(record.body)
            IN /\ \A path \in StatusLinePaths(record.body) :
                     FileTags(path) \subseteq TagsOf(record)
               /\ Range(classify_tags(record.pr_title)) \subseteq TagsOf(record)
               /\ Range(classify_tags(Some(Join([k \in DOMAIN sections |->
                                  Join(sections[k].lines, COMMA)], COMMA))))
                     \subseteq TagsOf(record)

====
